---- MODULE Spec2Model ----
(***************************************************************************)
(* A model of release-boss: the version decision engine                    *)
(* (core/commitAnalyzer, github/commentAnalyzer) and the template rewrite  *)
(* engine (core/templateProcessor): the rewrite of one version file,       *)
(* renderTemplate on its own, and the loops of processVersionFiles and     *)
(* processTemplateFiles over a list of files on a disk that can fail.      *)
(*                                                                         *)
(* Text is modelled as a sequence of one-character strings, except that    *)
(* a word whose letters never matter on their own is one element: "M" is   *)
(* the literal release-manager: of the opening marker, the name between   *)
(* the braces of a placeholder is one element ({{version}} is the five     *)
(* elements "{", "{", "version", "}", "}"), and a commit type is its word  *)
(* followed by "!" when the header carries one.                            *)
(***************************************************************************)
EXTENDS Integers, Sequences, FiniteSets, TLC

VARIABLES
    \* ---- version decision engine ----
    rangeCommits,    \* what conventional-commits-parser returned, per commit of the range
    parsedCommits,   \* analyzeCommits' parsedCommits: every commit with bumpType and excluded
    commits,         \* analyzeCommits' result: the commits that are not excluded
    currentVersion,  \* the highest semver tag of the repository
    releaseAs,       \* config.releaseAs
    result,          \* determineVersionBump's return value
    bumpCommand,     \* findBumpCommandsInPR's result on the merged release PR
    version,         \* the version the release run tags
    pc,              \* position of the run
    \* ---- template rewrite engine ----
    fileLines,       \* the version file on disk, as content.split('\n')
    tplVersion,      \* the version string processVersionFiles is called with
    runs,            \* number of processVersionFiles calls made on the file
    lastInput,       \* the file as the last call read it
    lastTrace,       \* the last call's bookkeeping: origin of every output line, regions found
    \* ---- renderTemplate on its own ----
    templateText,    \* the text renderTemplate is called with
    renderedText,    \* what it returned
    \* ---- a batch of files, and the run that asked for it ----
    fs,              \* the disk: content per absolute path
    fs0,             \* the disk before the call
    files,           \* the list the function is called with (config.versionFiles or templateFiles)
    mode,            \* "version" for processVersionFiles, "template" for processTemplateFiles
    idx,             \* position of the for loop in files
    processedFiles,  \* processedFiles / generatedFiles
    status,          \* "running", "returned" or "thrown"
    caught,          \* the error run's catch received
    log,             \* what the console holds about each file
    io,              \* the file system calls made, in order
    updatedFiles,    \* run's updatedFiles
    \* ---- the comments of a pull request ----
    prComments,      \* what issues.listComments returns for the pull request, in listed order
    bumpCommandResult, \* what findBumpCommandsInPR returned
    \* ---- the changelog table of a pull request ----
    tableEntries,    \* the entries parsed from the table of the PR description
    commitEntries,   \* the entries made from the commits of this run
    mergedEntries,   \* what mergeChangelogEntries returned
    \* ---- the repository and the runs of the action on it ----
    tags,            \* the tags of the repository: name and commit
    releaseHead,     \* the commit at the head of the release branch
    releaseFiles,    \* the version the version files at that head were rendered for
    pulls,           \* the open pull requests into the release branch
    pending,         \* the commits of the merge branch that the release branch lacks
    tagConfig,       \* config.tagLatest, config.tagMajor, config.tagMinor
    lastRun,         \* what the last run of the action saw and did
    \* ---- a branch, and a call of commitMultipleFilesToStaging on it ----
    branchHead,      \* the commit heads/<branch> points at: its position in the history
    branchTree,      \* the tree of that commit: content per path
    commitFiles,     \* the paths of the files the call commits
    commitPc,        \* position of the call
    baseTreeSha,     \* the commit the call read as the head
    newTree,         \* the tree the call created
    latestSha,       \* the head the call read again after a rejected update
    landed           \* the paths other commits changed between the read and the update

dvars == <<rangeCommits, parsedCommits, commits, currentVersion, releaseAs, result, bumpCommand, version, pc>>
tvars == <<fileLines, tplVersion, runs, lastInput, lastTrace>>
rvars == <<templateText, renderedText>>
bvars == <<fs, fs0, files, mode, idx, processedFiles, status, caught, log, io, updatedFiles>>
cvars == <<prComments, bumpCommandResult>>
mvars == <<tableEntries, commitEntries, mergedEntries>>
wvars == <<tags, releaseHead, releaseFiles, pulls, pending, tagConfig, lastRun>>
gvars == <<branchHead, branchTree, commitFiles, commitPc, baseTreeSha, newTree, latestSha, landed>>
xvars == <<cvars, mvars, wvars, gvars>>
vars == <<rangeCommits, parsedCommits, commits, currentVersion, releaseAs, result, bumpCommand, version, pc,
          fileLines, tplVersion, runs, lastInput, lastTrace, templateText, renderedText,
          fs, fs0, files, mode, idx, processedFiles, status, caught, log, io, updatedFiles,
          prComments, bumpCommandResult, tableEntries, commitEntries, mergedEntries,
          tags, releaseHead, releaseFiles, pulls, pending, tagConfig, lastRun,
          branchHead, branchTree, commitFiles, commitPc, baseTreeSha, newTree, latestSha, landed>>

NULL == "null"
\* a missing (null or undefined) type, scope or notes of a parsed commit
Undefined == <<NULL>>

\* ------------------------------------------------------------------ bounds
MaxCommits == 2
MaxVer == 1

SeqsUpTo(S, n) == UNION {[1..k -> S] : k \in 0..n}

\* ================================================================ decision
MINOR_BUMP_TYPES == {<<"feat">>}
PATCH_BUMP_TYPES == {<<"fix">>, <<"perf">>, <<"refactor">>}
NO_BUMP_TYPES == {<<"docs">>, <<"style">>, <<"test">>, <<"ci">>, <<"build">>}
EXCLUDED_TYPES == {<<"chore">>}

\* String.prototype.endsWith('!')
EndsWithBang(s) == Len(s) > 0 /\ s[Len(s)] = "!"

\* `x && ...`: null, undefined and the empty string are falsy
Truthy(x) == x # Undefined /\ x # <<>>

\* Mutant: the breaking check is made after the type tables.
getBumpTypeForCommit_typeFirst(parsedCommit) ==
    IF parsedCommit.type \in MINOR_BUMP_TYPES THEN "minor"
    ELSE IF parsedCommit.type \in PATCH_BUMP_TYPES THEN "patch"
    ELSE IF parsedCommit.type \in NO_BUMP_TYPES THEN NULL
    ELSE IF (Truthy(parsedCommit.type) /\ EndsWithBang(parsedCommit.type))
            \/ (parsedCommit.notes # Undefined
                /\ \E i \in 1..Len(parsedCommit.notes) :
                      parsedCommit.notes[i] \in {"BREAKING CHANGE", "BREAKING-CHANGE"})
         THEN "major"
    ELSE NULL

getBumpTypeForCommit(parsedCommit) ==
    LET hasBreakingChangeMarker ==
            Truthy(parsedCommit.type) /\ EndsWithBang(parsedCommit.type)
        hasBreakingChangeNote ==
            /\ parsedCommit.notes # Undefined
            /\ \E i \in 1..Len(parsedCommit.notes) :
                  \/ parsedCommit.notes[i] = "BREAKING CHANGE"
                  \/ parsedCommit.notes[i] = "BREAKING-CHANGE"
    IN  IF hasBreakingChangeMarker \/ hasBreakingChangeNote THEN "major"
        ELSE IF parsedCommit.type \in MINOR_BUMP_TYPES THEN "minor"
        ELSE IF parsedCommit.type \in PATCH_BUMP_TYPES THEN "patch"
        ELSE IF parsedCommit.type \in NO_BUMP_TYPES THEN NULL
        ELSE NULL

\* Mutant: only the type table excludes, the no-release scope is forgotten.
isExcludedFromChangelog_typeOnly(parsedCommit) ==
    parsedCommit.type \in EXCLUDED_TYPES

isExcludedFromChangelog(parsedCommit) ==
    IF parsedCommit.type \in EXCLUDED_TYPES THEN TRUE
    ELSE IF parsedCommit.scope = <<"no-release">> THEN TRUE
    ELSE FALSE

\* analyzeCommits, after the compare call: map every commit to its record ...
ParseCommits(range) ==
    [i \in 1..Len(range) |->
        [parsed |-> range[i],
         bumpType |-> getBumpTypeForCommit(range[i]),
         excluded |-> isExcludedFromChangelog(range[i])]]

\* ... and "Filter out the excluded commits"
FilterCommits(parsedRecs) ==
    LET kept(c) == ~c.excluded
    IN  SelectSeq(parsedRecs, kept)

\* ---- node-semver, as determineVersionBump uses it ----
\* A version is [major, minor, patch, pre]; pre = "" when there is no prerelease suffix.
V(ma, mi, pa) == [major |-> ma, minor |-> mi, patch |-> pa, pre |-> ""]

\* semver.compare: the triple, then a prerelease is lower than its release
SemverCompare(a, b) ==
    IF a.major # b.major THEN (IF a.major < b.major THEN -1 ELSE 1)
    ELSE IF a.minor # b.minor THEN (IF a.minor < b.minor THEN -1 ELSE 1)
    ELSE IF a.patch # b.patch THEN (IF a.patch < b.patch THEN -1 ELSE 1)
    ELSE IF a.pre = b.pre THEN 0
    ELSE IF a.pre # "" /\ b.pre = "" THEN -1
    ELSE IF a.pre = "" /\ b.pre # "" THEN 1
    ELSE 0

SemverLt(a, b) == SemverCompare(a, b) < 0

\* semver.inc(v, release) for release in major, minor, patch
SemverInc(v, release) ==
    CASE release = "major" ->
            V(IF v.minor # 0 \/ v.patch # 0 \/ v.pre = "" THEN v.major + 1 ELSE v.major, 0, 0)
      [] release = "minor" ->
            V(v.major, IF v.patch # 0 \/ v.pre = "" THEN v.minor + 1 ELSE v.minor, 0)
      [] release = "patch" ->
            V(v.major, v.minor, IF v.pre = "" THEN v.patch + 1 ELSE v.patch)

\* Array.prototype.includes over the commits' bump types
Includes(bumpTypes, k) == \E i \in 1..Len(bumpTypes) : bumpTypes[i] = k

\* Mutant: the severity order is tested lowest first.
HighestBump_lowestFirst(cs) ==
    LET hasBump(c) == c.bumpType # NULL
        withBump == SelectSeq(cs, hasBump)
        bumpTypes == [i \in 1..Len(withBump) |-> withBump[i].bumpType]
    IN  IF Includes(bumpTypes, "patch") THEN "patch"
        ELSE IF Includes(bumpTypes, "minor") THEN "minor"
        ELSE IF Includes(bumpTypes, "major") THEN "major"
        ELSE NULL

\* determineVersionBump: "Calculate the highest impact bump from all commits"
HighestBump(cs) ==
    LET hasBump(c) == c.bumpType # NULL
        withBump == SelectSeq(cs, hasBump)
        bumpTypes == [i \in 1..Len(withBump) |-> withBump[i].bumpType]
    IN  IF Includes(bumpTypes, "major") THEN "major"
        ELSE IF Includes(bumpTypes, "minor") THEN "minor"
        ELSE IF Includes(bumpTypes, "patch") THEN "patch"
        ELSE NULL

\* Mutant: the override is used only when the commits ask for nothing.
OverrideBump_onlyIfNone(bumpType, relAs) ==
    IF bumpType = NULL /\ relAs \in {"major", "minor", "patch"} THEN relAs ELSE bumpType

\* determineVersionBump: "Override with explicit releaseAs from config if provided"
OverrideBump(bumpType, relAs) ==
    IF relAs # NULL /\ relAs \in {"major", "minor", "patch"} THEN relAs ELSE bumpType

\* Mutant: no pre-1.0 rule at all.
PreOneRule_none(cur, bumpType) == bumpType

\* Mutant: the pre-1.0 rule lowers a breaking change all the way to a patch.
PreOneRule_twoSteps(cur, bumpType) ==
    IF SemverLt(cur, V(1, 0, 0))
    THEN (IF bumpType = "major" THEN "patch"
          ELSE IF bumpType = "minor" THEN "patch" ELSE bumpType)
    ELSE bumpType

\* Mutant: the pre-1.0 rule is applied to every version.
PreOneRule_always(cur, bumpType) ==
    IF bumpType = "major" THEN "minor"
    ELSE IF bumpType = "minor" THEN "patch" ELSE bumpType

\* determineVersionBump: "Apply pre-1.0 version bump rules", giving newBumpType
PreOneRule(cur, bumpType) ==
    IF SemverLt(cur, V(1, 0, 0))
    THEN (IF bumpType = "major" THEN "minor"
          ELSE IF bumpType = "minor" THEN "patch" ELSE bumpType)
    ELSE bumpType

\* Mutant: the unchanged version is returned although a bump was decided.
determineVersionBump_noInc(cs, cur, relAs) ==
    LET bumpType == OverrideBump(HighestBump(cs), relAs)
    IN  [bumpType |-> bumpType, newVersion |-> cur, currentVersion |-> cur,
         newBumpType |-> NULL, aggregated |-> HighestBump(cs)]

\* determineVersionBump, given the current version found from the tags. newBumpType
\* and aggregated are its locals, kept in the record for the properties to read.
determineVersionBump(cs, cur, relAs) ==
    LET aggregated == HighestBump(cs)
        bumpType == OverrideBump(aggregated, relAs)
    IN  IF bumpType = NULL
        THEN [bumpType |-> NULL, newVersion |-> cur, currentVersion |-> cur,
              newBumpType |-> NULL, aggregated |-> aggregated]
        ELSE LET newBumpType == PreOneRule(cur, bumpType)
             IN  [bumpType |-> bumpType,
                  newVersion |-> SemverInc(cur, newBumpType),
                  currentVersion |-> cur,
                  newBumpType |-> newBumpType,
                  aggregated |-> aggregated]

\* The text of a release version, as split('.') sees it
VersionParts(v) == <<v.major, v.minor, v.patch>>

\* Mutant: the guards are dropped, the command always bumps.
applyBumpCommand_noGuard(cur, bumpType) ==
    IF bumpType = "minor" THEN <<cur[1], cur[2] + 1, 0>>
    ELSE IF bumpType = "major" THEN <<cur[1] + 1, 0, 0>>
    ELSE cur

\* applyBumpCommand(currentVersion, bumpType); cur is currentVersion.split('.').map(Number)
applyBumpCommand(cur, bumpType) ==
    LET major == cur[1]
        minor == cur[2]
        patch == cur[3]
    IN  IF bumpType = "minor" /\ patch = 0 THEN cur
        ELSE IF bumpType = "major" /\ minor = 0 /\ patch = 0 THEN cur
        ELSE IF bumpType = "minor" THEN <<major, minor + 1, 0>>
        ELSE IF bumpType = "major" THEN <<major + 1, 0, 0>>
        ELSE cur

\* ---- inputs ----
CommitTypes ==
    {<<"feat">>, <<"fix">>, <<"perf">>, <<"refactor">>, <<"docs">>, <<"style">>,
     <<"test">>, <<"ci">>, <<"build">>, <<"chore">>, <<"wip">>, <<>>, Undefined,
     <<"feat", "!">>, <<"fix", "!">>, <<"docs", "!">>, <<"chore", "!">>, <<"!">>}
CommitScopes == {Undefined, <<"no-release">>, <<"api">>}
\* notes: the titles of the parsed notes, in order
CommitNotes ==
    {Undefined, <<>>, <<"BREAKING CHANGE">>, <<"BREAKING-CHANGE">>,
     <<"NOTE">>, <<"NOTE", "BREAKING CHANGE">>}

Commit(t, s, n) == [type |-> t, scope |-> s, notes |-> n]

\* every shape of a single parsed commit
ParsedCommits == {Commit(t, s, n) : t \in CommitTypes, s \in CommitScopes, n \in CommitNotes}

\* the commits that ranges of several commits are made of
CoreCommits ==
    {Commit(<<"feat">>, Undefined, <<>>),
     Commit(<<"fix">>, Undefined, <<>>),
     Commit(<<"docs">>, Undefined, <<>>),
     Commit(<<"fix">>, <<"no-release">>, <<>>),
     Commit(<<"chore">>, Undefined, <<"BREAKING CHANGE">>),
     Commit(<<"refactor">>, <<"api">>, <<"BREAKING-CHANGE">>)}

CommitRanges == {<<c>> : c \in ParsedCommits} \cup SeqsUpTo(CoreCommits, MaxCommits)

Versions ==
    {[major |-> ma, minor |-> mi, patch |-> pa, pre |-> pr] :
        ma \in 0..MaxVer, mi \in 0..MaxVer, pa \in 0..MaxVer, pr \in {"", "rc.1"}}
    \cup {V(0, 4, 0), V(0, 9, 5)}

ReleaseAsValues == {NULL, "major", "minor", "patch", "auto"}

\* result before determineVersionBump has returned
NoResult == [bumpType |-> NULL, newVersion |-> V(0, 0, 0), currentVersion |-> V(0, 0, 0),
             newBumpType |-> NULL, aggregated |-> NULL]

NoTrace == [origin |-> <<>>, regions |-> <<>>]

NoError == <<>>

InitRenderIdle ==
    /\ templateText = <<>>
    /\ renderedText = Undefined

InitBatchIdle ==
    /\ fs = <<>>
    /\ fs0 = <<>>
    /\ files = <<>>
    /\ mode = NULL
    /\ idx = 0
    /\ processedFiles = <<>>
    /\ status = NULL
    /\ caught = NoError
    /\ log = <<>>
    /\ io = <<>>
    /\ updatedFiles = <<>>

InitTemplateIdle ==
    /\ fileLines = <<>>
    /\ tplVersion = <<>>
    /\ runs = 0
    /\ lastInput = <<>>
    /\ lastTrace = NoTrace

\* the result of a function that was not called yet; once it returned, the
\* variable is the one-element sequence of what it returned
NotCalled == <<>>

InitCommentsIdle ==
    /\ prComments = <<>>
    /\ bumpCommandResult = NotCalled

InitMergeIdle ==
    /\ tableEntries = <<>>
    /\ commitEntries = <<>>
    /\ mergedEntries = NotCalled

\* the absence of a version string
NoVersion == <<>>

\* the absence of a pull request
NoPull == [head |-> NULL, version |-> NoVersion]

\* lastRun before any run
NoRun ==
    [event |-> NULL, pull |-> NoPull, runType |-> NULL, consulted |-> FALSE, analyzed |-> FALSE,
     rendered |-> NoVersion, created |-> NoPull, updated |-> NoPull, currentVersion |-> NoVersion,
     newVersion |-> NoVersion, branchVersion |-> NoVersion, bumpType |-> NULL,
     found |-> FALSE, tagged |-> NoVersion, tagExisted |-> FALSE, taggedFiles |-> NoVersion]

InitWorkflowIdle ==
    /\ tags = {}
    /\ releaseHead = 0
    /\ releaseFiles = NoVersion
    /\ pulls = {}
    /\ pending = <<>>
    /\ tagConfig = [tagLatest |-> TRUE, tagMajor |-> FALSE, tagMinor |-> FALSE]
    /\ lastRun = NoRun

InitBranchIdle ==
    /\ branchHead = 0
    /\ branchTree = <<>>
    /\ commitFiles = {}
    /\ commitPc = NULL
    /\ baseTreeSha = 0
    /\ newTree = <<>>
    /\ latestSha = 0
    /\ landed = {}

InitExtIdle ==
    /\ InitCommentsIdle
    /\ InitMergeIdle
    /\ InitWorkflowIdle
    /\ InitBranchIdle

InitDecision ==
    /\ rangeCommits \in CommitRanges
    /\ parsedCommits = <<>>
    /\ currentVersion \in Versions
    /\ releaseAs \in ReleaseAsValues
    /\ commits = <<>>
    /\ result = NoResult
    /\ bumpCommand = NULL
    /\ version = <<>>
    /\ pc = "start"
    /\ InitTemplateIdle
    /\ InitRenderIdle
    /\ InitBatchIdle
    /\ InitExtIdle

\* run(): commits = await analyzeCommits(octokit, context, config)
AnalyzeCommits ==
    /\ pc = "start"
    /\ parsedCommits' = ParseCommits(rangeCommits)
    /\ commits' = FilterCommits(parsedCommits')
    /\ pc' = "analyzed"
    /\ UNCHANGED <<rangeCommits, currentVersion, releaseAs, result, bumpCommand, version>>
    /\ UNCHANGED <<tvars, rvars, bvars, xvars>>

\* run(): result = await determineVersionBump(commits, octokit, context, config);
\* with no bump the run returns
DetermineVersionBump ==
    /\ pc = "analyzed"
    /\ result' = determineVersionBump(commits, currentVersion, releaseAs)
    /\ pc' = IF result'.bumpType = NULL THEN "idle" ELSE "pr_open"
    /\ UNCHANGED <<rangeCommits, parsedCommits, commits, currentVersion, releaseAs,
                   bumpCommand, version>>
    /\ UNCHANGED <<tvars, rvars, bvars, xvars>>

\* run() on the merge of the release PR: the version of the staging branch name,
\* replaced by applyBumpCommand when a /bump command was found
ReleaseRun ==
    /\ pc = "pr_open"
    /\ \E cmd \in {NULL, "major", "minor"} :
          /\ bumpCommand' = cmd
          /\ version' = IF cmd # NULL
                        THEN applyBumpCommand(VersionParts(result.newVersion), cmd)
                        ELSE VersionParts(result.newVersion)
    /\ pc' = "released"
    /\ UNCHANGED <<rangeCommits, parsedCommits, commits, currentVersion, releaseAs, result>>
    /\ UNCHANGED <<tvars, rvars, bvars, xvars>>

NextDecision == AnalyzeCommits \/ DetermineVersionBump \/ ReleaseRun

SpecDecision == InitDecision /\ [][NextDecision]_vars

\* ================================================================ template rewrite
MaxLines == 4
MaxRuns == 2

\* '%%release-manager:' and '%%'
OPEN_MARKER == <<"%", "%", "M">>
END_MARKER == <<"%", "%">>

\* String.prototype.indexOf(pat, from), 1-based; 0 when JavaScript answers -1
IndexOf(s, pat, from) ==
    LET hits == {i \in from..(Len(s) - Len(pat) + 1) : SubSeq(s, i, i + Len(pat) - 1) = pat}
    IN  IF hits = {} THEN 0 ELSE CHOOSE i \in hits : \A h \in hits : i <= h

\* String.prototype.includes
StrIncludes(s, pat) == IndexOf(s, pat, 1) # 0

IsSpace(c) == c \in {" ", "\n"}

\* String.prototype.trim
RECURSIVE TrimLeft(_)
TrimLeft(s) == IF s # <<>> /\ IsSpace(Head(s)) THEN TrimLeft(Tail(s)) ELSE s
RECURSIVE TrimRight(_)
TrimRight(s) ==
    IF s # <<>> /\ IsSpace(s[Len(s)]) THEN TrimRight(SubSeq(s, 1, Len(s) - 1)) ELSE s
Trim(s) == TrimRight(TrimLeft(s))

\* Array.prototype.join('\n')
RECURSIVE JoinLines(_)
JoinLines(ls) ==
    IF ls = <<>> THEN <<>>
    ELSE IF Len(ls) = 1 THEN ls[1]
    ELSE ls[1] \o <<"\n">> \o JoinLines(Tail(ls))

\* String.prototype.split('\n')
RECURSIVE SplitLines(_)
SplitLines(s) ==
    LET nl == IndexOf(s, <<"\n">>, 1)
    IN  IF nl = 0 THEN <<s>>
        ELSE <<SubSeq(s, 1, nl - 1)>> \o SplitLines(SubSeq(s, nl + 1, Len(s)))

\* version.split('.')
RECURSIVE SplitDots(_)
SplitDots(s) ==
    LET dot == IndexOf(s, <<".">>, 1)
    IN  IF dot = 0 THEN <<s>>
        ELSE <<SubSeq(s, 1, dot - 1)>> \o SplitDots(SubSeq(s, dot + 1, Len(s)))

\* the text {{name}}
Placeholder(name) == <<"{", "{", name, "}", "}">>

\* String.prototype.replace(/<pattern>/g, value) for a pattern without operators:
\* every match, left to right, the search resuming after each match
RECURSIVE ReplaceAll(_, _, _)
ReplaceAll(s, pattern, value) ==
    IF Len(s) < Len(pattern) THEN s
    ELSE IF SubSeq(s, 1, Len(pattern)) = pattern
    THEN value \o ReplaceAll(SubSeq(s, Len(pattern) + 1, Len(s)), pattern, value)
    ELSE <<Head(s)>> \o ReplaceAll(Tail(s), pattern, value)

\* Mutant: {{version}} is matched whatever the case of its first letter.
renderTemplate_anyCase(template, ver, major, minor, patch) ==
    ReplaceAll(ReplaceAll(ReplaceAll(ReplaceAll(ReplaceAll(template,
        Placeholder("version"), ver), Placeholder("Version"), ver),
        Placeholder("major"), major), Placeholder("minor"), minor),
        Placeholder("patch"), patch)

\* renderTemplate(template, version, major, minor, patch)
renderTemplate(template, ver, major, minor, patch) ==
    ReplaceAll(ReplaceAll(ReplaceAll(ReplaceAll(template,
        Placeholder("version"), ver), Placeholder("major"), major),
        Placeholder("minor"), minor), Placeholder("patch"), patch)

\* Mutant: the closing line of a multi-line template is not copied.
RegionLines_dropCloser(lines, i, j) == SubSeq(lines, i + 1, j - 1)

\* "Add all template lines to preserve them": lines i+1 .. j
RegionLines(lines, i, j) == SubSeq(lines, i + 1, j)

\* Mutant: a line outside a template is trimmed when it is copied.
PlainLine_trimmed(line) == <<Trim(line)>>

\* "No template in this line, add it to output"
PlainLine(line) == <<line>>

\* Mutant: the template line itself is not added to the output.
MarkerLine_dropped(line) == <<>>

\* "First, add the template line itself to preserve it"
MarkerLine(line) == <<line>>

\* Mutant: the scan for implementation lines does not stop at an opening marker.
RECURSIVE ImplementationLines_pastMarkers(_, _, _)
ImplementationLines_pastMarkers(lines, from, wanted) ==
    IF from > Len(lines) THEN 0
    ELSE IF wanted <= 1 THEN 1
    ELSE 1 + ImplementationLines_pastMarkers(lines, from + 1, wanted - 1)

\* the implementation lines found after the template: up to `wanted` lines, stopping
\* at end of file or at a line that holds another opening marker
RECURSIVE ImplementationLines(_, _, _)
ImplementationLines(lines, from, wanted) ==
    IF from > Len(lines) THEN 0
    ELSE IF StrIncludes(lines[from], OPEN_MARKER) THEN 0
    ELSE IF wanted <= 1 THEN 1
    ELSE 1 + ImplementationLines(lines, from + 1, wanted - 1)

Min(a, b) == IF a <= b THEN a ELSE b

\* Mutant: the old implementation is never skipped.
SkipCount_none(rendered, found) == 0

\* "Skip the lines we're replacing": Math.min(renderedLines.length, implementationLines.length)
SkipCount(rendered, found) == Min(rendered, found)

\* Mutant: a template without end marker is closed by the last line of the file.
EndMarkerLine_eof(lines, i) ==
    LET hits == {j \in (i + 1)..Len(lines) : StrIncludes(lines[j], END_MARKER)}
    IN  IF hits = {} THEN (IF i < Len(lines) THEN Len(lines) ELSE 0)
        ELSE CHOOSE j \in hits : \A h \in hits : j <= h

\* the first line after i that holds '%%', 0 when there is none
EndMarkerLine(lines, i) ==
    LET hits == {j \in (i + 1)..Len(lines) : StrIncludes(lines[j], END_MARKER)}
    IN  IF hits = {} THEN 0 ELSE CHOOSE j \in hits : \A h \in hits : j <= h

\* the text of a multi-line template whose opener is line i (marker ending before
\* column sme) and whose end marker is on line j
MultiLineTemplate(lines, i, sme, j) ==
    LET first == Trim(SubSeq(lines[i], sme, Len(lines[i])))
        middle == [k \in 1..(j - i - 1) |-> Trim(lines[i + k])]
        last == Trim(SubSeq(lines[j], 1, IndexOf(lines[j], END_MARKER, 1) - 1))
    IN  Trim(JoinLines(<<first>> \o middle \o <<last>>))

\* The while loop of processVersionFiles from line i on. Returns the output lines
\* with, for the properties, the origin of each (the input line copied, 0 for a
\* rendered line) and the regions found.
RECURSIVE ProcessFrom(_, _, _)
ProcessFrom(lines, i, ver) ==
    IF i > Len(lines) THEN [out |-> <<>>, origin |-> <<>>, regions |-> <<>>]
    ELSE
    LET line == lines[i]
        templateStartIndex == IndexOf(line, OPEN_MARKER, 1)
    IN  IF templateStartIndex = 0
        THEN LET rest == ProcessFrom(lines, i + 1, ver)
             IN  [out |-> PlainLine(line) \o rest.out,
                  origin |-> <<i>> \o rest.origin,
                  regions |-> rest.regions]
        ELSE
        LET startMarkerEnd == templateStartIndex + Len(OPEN_MARKER)
            templateEndInSameLine == IndexOf(line, END_MARKER, startMarkerEnd)
            j == IF templateEndInSameLine # 0 THEN i ELSE EndMarkerLine(lines, i)
            kept == MarkerLine(line)
            keptOrigin == [k \in 1..Len(kept) |-> i]
        IN  IF j = 0
            THEN \* no end marker: warn, i++, continue
                 LET rest == ProcessFrom(lines, i + 1, ver)
                 IN  [out |-> kept \o rest.out,
                      origin |-> keptOrigin \o rest.origin,
                      regions |-> rest.regions]
            ELSE
            LET templateContent ==
                    IF templateEndInSameLine # 0
                    THEN Trim(SubSeq(line, startMarkerEnd, templateEndInSameLine - 1))
                    ELSE MultiLineTemplate(lines, i, startMarkerEnd, j)
                region == IF j = i THEN <<>> ELSE RegionLines(lines, i, j)
                parts == SplitDots(ver)
                part(n) == IF n <= Len(parts) THEN parts[n] ELSE <<"undefined">>
                renderedLines ==
                    SplitLines(renderTemplate(templateContent, ver, part(1), part(2), part(3)))
                found == ImplementationLines(lines, j + 1, Len(renderedLines))
                skip == SkipCount(Len(renderedLines), found)
                rest == ProcessFrom(lines, j + 1 + skip, ver)
            IN  [out |-> kept \o region \o renderedLines \o rest.out,
                 origin |-> keptOrigin \o [k \in 1..Len(region) |-> i + k]
                            \o [k \in 1..Len(renderedLines) |-> 0] \o rest.origin,
                 regions |-> <<[start |-> i, end |-> j, rendered |-> Len(renderedLines),
                                skipped |-> skip]>> \o rest.regions]

\* ---- inputs ----
\* the lines version files are made of
FileLineKinds ==
    {<<"x">>,                                                        \* any other line
     <<>>,                                                           \* an empty line
     OPEN_MARKER \o <<" ">> \o Placeholder("version") \o END_MARKER,  \* %%release-manager: {{version}}%%
     OPEN_MARKER,                                                    \* %%release-manager:
     OPEN_MARKER \o <<" ">> \o Placeholder("minor"),                 \* %%release-manager: {{minor}}
     <<" ">> \o Placeholder("major"),                                \*  {{major}}
     <<"%">> \o Placeholder("major") \o <<"%">>,                      \* %{{major}}%
     Placeholder("patch") \o END_MARKER \o <<"x">>}                   \* {{patch}}%%x

FileContents == SeqsUpTo(FileLineKinds, MaxLines) \ {<<>>}

TemplateVersions ==
    {<<"1", ".", "2", ".", "3">>, <<"0", ".", "1", "0", ".", "0">>}

InitDecisionIdle ==
    /\ rangeCommits = <<>>
    /\ parsedCommits = <<>>
    /\ commits = <<>>
    /\ currentVersion = V(0, 0, 0)
    /\ releaseAs = NULL
    /\ result = NoResult
    /\ bumpCommand = NULL
    /\ version = <<>>
    /\ pc = "files"

InitTemplate ==
    /\ fileLines \in FileContents
    /\ tplVersion \in TemplateVersions
    /\ runs = 0
    /\ lastInput = <<>>
    /\ lastTrace = NoTrace
    /\ InitDecisionIdle
    /\ InitRenderIdle
    /\ InitBatchIdle
    /\ InitExtIdle

\* processVersionFiles([file], version, config) on a file that exists and can be
\* written: read, split, rewrite, join, write
ProcessVersionFiles ==
    /\ runs < MaxRuns
    /\ LET lines == fileLines
           done == ProcessFrom(lines, 1, tplVersion)
       IN  /\ fileLines' = SplitLines(JoinLines(done.out))
           /\ lastInput' = lines
           /\ lastTrace' = [origin |-> done.origin, regions |-> done.regions]
    /\ runs' = runs + 1
    /\ UNCHANGED tplVersion
    /\ UNCHANGED <<dvars, rvars, bvars, xvars>>

NextTemplate == ProcessVersionFiles

SpecTemplate == InitTemplate /\ [][NextTemplate]_vars

\* ---- one template at the head of a file, and what follows it ----
MaxTail == 3

\* // %%release-manager: v{{version}}%%
SingleLineBlock ==
    << <<"/", "/", " ">> \o OPEN_MARKER \o <<" ", "v">> \o Placeholder("version") \o END_MARKER >>

\* a template of three lines that renders to two lines
ThreeLineBlock ==
    << OPEN_MARKER, <<" ">> \o Placeholder("major"), Placeholder("patch") \o END_MARKER \o <<"x">> >>

TemplateBlocks ==
    {SingleLineBlock,
     ThreeLineBlock,
     << OPEN_MARKER \o <<" ">> \o Placeholder("minor"), Placeholder("patch") \o END_MARKER >>,
     << OPEN_MARKER \o <<" ", "x">>, <<"x">>, <<"x">> \o END_MARKER >>}

\* v9.9.9, the implementation an earlier release left behind
OldImplementation == <<"v", "9", ".", "9", ".", "9">>

TailLineKinds ==
    {OldImplementation, <<"x">>, <<>>,
     OPEN_MARKER \o <<" ">> \o Placeholder("major") \o END_MARKER}

InitRegion ==
    /\ fileLines \in {b \o t : b \in TemplateBlocks, t \in SeqsUpTo(TailLineKinds, MaxTail)}
    /\ tplVersion \in TemplateVersions
    /\ runs = 0
    /\ lastInput = <<>>
    /\ lastTrace = NoTrace
    /\ InitDecisionIdle
    /\ InitRenderIdle
    /\ InitBatchIdle
    /\ InitExtIdle

SpecRegion == InitRegion /\ [][NextTemplate]_vars

\* ================================================================ renderTemplate
MaxPieces == 3

\* the pieces template texts are made of
RenderPieces ==
    {Placeholder("version"), Placeholder("major"), Placeholder("minor"), Placeholder("patch"),
     Placeholder("Version"),                           \* {{Version}}
     Placeholder("name"),                              \* {{name}}
     <<"{", "{", " ", "version", " ", "}", "}">>,      \* {{ version }}
     <<"{", "{">>, <<"}", "}">>, <<"{">>, <<"version">>, <<"x">>}

RECURSIVE Concat(_)
Concat(pieces) == IF pieces = <<>> THEN <<>> ELSE Head(pieces) \o Concat(Tail(pieces))

\* const [major, minor, patch] = version.split('.')
VersionPart(ver, n) ==
    LET parts == SplitDots(ver)
    IN  IF n <= Len(parts) THEN parts[n] ELSE <<"undefined">>

InitRender ==
    /\ templateText \in {Concat(ps) : ps \in SeqsUpTo(RenderPieces, MaxPieces)}
    /\ renderedText = Undefined
    /\ tplVersion \in TemplateVersions
    /\ fileLines = <<>>
    /\ runs = 0
    /\ lastInput = <<>>
    /\ lastTrace = NoTrace
    /\ InitDecisionIdle
    /\ InitBatchIdle
    /\ InitExtIdle

\* renderTemplate(content, version, major, minor, patch) as both callers call it
RenderTemplate ==
    /\ renderedText = Undefined
    /\ renderedText' = renderTemplate(templateText, tplVersion, VersionPart(tplVersion, 1),
                                      VersionPart(tplVersion, 2), VersionPart(tplVersion, 3))
    /\ UNCHANGED templateText
    /\ UNCHANGED <<dvars, tvars, bvars, xvars>>

NextRender == RenderTemplate

SpecRender == InitRender /\ [][NextRender]_vars

\* ================================================================ batches of files
MaxBatch == 2

\* ---- paths: a sequence of directory elements, name words and dot suffixes ----
IsDirToken(t) == t \in {"./", "src/"}
IsExtToken(t) == t \in {".tpl", ".json", ".js", ".new"}

\* path.parse(p): dir, name and ext; a base that is only a dot suffix has no ext
PathParse(p) ==
    LET NotDir(t) == ~IsDirToken(t)
        base == SelectSeq(p, NotDir)
        hasExt == Len(base) >= 2 /\ IsExtToken(base[Len(base)])
    IN  [dir |-> SelectSeq(p, IsDirToken),
         name |-> IF hasExt THEN SubSeq(base, 1, Len(base) - 1) ELSE base,
         ext |-> IF hasExt THEN <<base[Len(base)]>> ELSE <<>>]

\* path.join(dir, base): joined and normalised, which drops a leading ./
PathJoin(dir, base) ==
    LET Kept(t) == t # "./"
    IN  SelectSeq(dir, Kept) \o base

\* path.resolve(p): the absolute path, written relative to the working directory
PathResolve(p) ==
    LET Kept(t) == t # "./"
    IN  SelectSeq(p, Kept)

\* Mutant: a template without .tpl in its name is rendered in place.
OutputFile_inPlace(templateFile) ==
    LET NotTpl(t) == t # ".tpl"
    IN  IF \E k \in DOMAIN templateFile : templateFile[k] = ".tpl"
        THEN SelectSeq(templateFile, NotTpl)
        ELSE templateFile

\* Mutant: .new is put after the extension.
OutputFile_newLast(templateFile) ==
    LET NotTpl(t) == t # ".tpl"
    IN  IF \E k \in DOMAIN templateFile : templateFile[k] = ".tpl"
        THEN SelectSeq(templateFile, NotTpl)
        ELSE templateFile \o <<".new">>

\* processTemplateFiles: "Determine output file name based on the template file name"
OutputFile(templateFile) ==
    LET NotTpl(t) == t # ".tpl"
        parsedPath == PathParse(templateFile)
    IN  IF \E k \in DOMAIN templateFile : templateFile[k] = ".tpl"
        THEN SelectSeq(templateFile, NotTpl)
        ELSE PathJoin(parsedPath.dir, parsedPath.name \o <<".new">> \o parsedPath.ext)

\* ---- inputs ----
\* the paths a configuration lists
InputPaths ==
    {<<"./", "config", ".tpl", ".json">>,
     <<"config", ".json">>,
     <<"./", "version", ".js">>,
     <<"src/", "VERSION">>}

\* every file the calls can touch
AllPaths == {PathResolve(p) : p \in InputPaths} \cup {PathResolve(OutputFile(p)) : p \in InputPaths}

\* a path without file
Missing == <<Undefined>>

\* a file holding a single-line template and its old implementation
MarkedFile == SingleLineBlock \o <<OldImplementation>>

\* a file whose template has no end marker
UnterminatedFile == << OPEN_MARKER \o <<" ">> \o Placeholder("version"), <<"x">> >>

DiskContents == {MarkedFile, UnterminatedFile, MarkedFile \o UnterminatedFile}

InitBatch ==
    /\ fs \in {d \in [AllPaths -> DiskContents \cup {Missing}] :
                 \A q \in AllPaths : q \notin {PathResolve(p) : p \in InputPaths} => d[q] = Missing}
    /\ fs0 = fs
    /\ files \in SeqsUpTo(InputPaths, MaxBatch) \ {<<>>}
    /\ mode \in {"version", "template"}
    /\ idx = 1
    /\ processedFiles = <<>>
    /\ status = "running"
    /\ caught = NoError
    /\ log = <<>>
    /\ io = <<>>
    /\ updatedFiles = <<>>
    /\ fileLines = <<>>
    /\ tplVersion = <<"1", ".", "2", ".", "3">>
    /\ runs = 0
    /\ lastInput = <<>>
    /\ lastTrace = NoTrace
    /\ InitDecisionIdle
    /\ InitRenderIdle
    /\ InitExtIdle

\* ---- the for loop of processVersionFiles and of processTemplateFiles ----
CurrentFile == files[idx]
InLoop == status = "running" /\ idx <= Len(files)

\* the path the function writes for `file`
TargetOf(file) == IF mode = "version" THEN file ELSE OutputFile(file)

\* the content the function writes for the content it read
Rewritten(lines) ==
    IF mode = "version"
    THEN SplitLines(JoinLines(ProcessFrom(lines, 1, tplVersion).out))
    ELSE SplitLines(renderTemplate(JoinLines(lines), tplVersion, VersionPart(tplVersion, 1),
                                   VersionPart(tplVersion, 2), VersionPart(tplVersion, 3)))

\* the bookkeeping of the rewrite, for the properties
TraceOf(lines) ==
    IF mode = "version"
    THEN LET done == ProcessFrom(lines, 1, tplVersion)
         IN  [origin |-> done.origin, regions |-> done.regions]
    ELSE NoTrace

\* a call of fs.access, fs.readFile or fs.writeFile made while the loop is at CurrentFile
IoCall(op, path, ok, data) ==
    [op |-> op, path |-> path, of |-> CurrentFile, ok |-> ok, data |-> data]

\* Mutant: the console lines do not name the file.
LogLine_anonymous(what) == [file |-> <<>>, what |-> what]

\* a console line about CurrentFile
LogLine(what) == [file |-> CurrentFile, what |-> what]

\* fs.access rejects: "does not exist or cannot be accessed", continue
AccessFails ==
    /\ InLoop
    /\ fs[PathResolve(CurrentFile)] = Missing
    /\ io' = Append(io, IoCall("access", CurrentFile, FALSE, <<>>))
    /\ log' = Append(log, LogLine("missing"))
    /\ idx' = idx + 1
    /\ UNCHANGED <<fs, fs0, files, mode, processedFiles, status, caught, updatedFiles>>
    /\ UNCHANGED <<dvars, tvars, rvars, xvars>>

\* the file is there but fs.readFile rejects: the outer catch logs and throws, and
\* run's catch receives the error
ReadFails ==
    /\ InLoop
    /\ fs[PathResolve(CurrentFile)] # Missing
    /\ io' = io \o <<IoCall("access", CurrentFile, TRUE, <<>>),
                      IoCall("read", CurrentFile, FALSE, <<>>)>>
    /\ log' = Append(log, LogLine("error"))
    /\ status' = "thrown"
    /\ caught' = <<[op |-> "read", path |-> CurrentFile]>>
    /\ UNCHANGED <<fs, fs0, files, mode, idx, processedFiles, updatedFiles>>
    /\ UNCHANGED <<dvars, tvars, rvars, xvars>>

\* Mutant: a rejected write is logged and the loop goes on.
WriteFails_swallowed ==
    /\ InLoop
    /\ fs[PathResolve(CurrentFile)] # Missing
    /\ LET lines == fs[PathResolve(CurrentFile)]
       IN  /\ io' = io \o <<IoCall("access", CurrentFile, TRUE, <<>>),
                             IoCall("read", CurrentFile, TRUE, lines),
                             IoCall("write", TargetOf(CurrentFile), FALSE, Rewritten(lines))>>
           /\ lastInput' = lines
           /\ lastTrace' = TraceOf(lines)
    /\ log' = Append(log, LogLine("save_error"))
    /\ idx' = idx + 1
    /\ UNCHANGED <<fs, fs0, files, mode, status, caught, processedFiles, updatedFiles>>
    /\ UNCHANGED <<fileLines, tplVersion, runs>>
    /\ UNCHANGED <<dvars, rvars, xvars>>

\* fs.writeFile rejects: the inner catch logs and throws, the outer catch logs and
\* throws, and run's catch receives the error
WriteFails ==
    /\ InLoop
    /\ fs[PathResolve(CurrentFile)] # Missing
    /\ LET lines == fs[PathResolve(CurrentFile)]
       IN  /\ io' = io \o <<IoCall("access", CurrentFile, TRUE, <<>>),
                             IoCall("read", CurrentFile, TRUE, lines),
                             IoCall("write", TargetOf(CurrentFile), FALSE, Rewritten(lines))>>
           /\ lastInput' = lines
           /\ lastTrace' = TraceOf(lines)
    /\ log' = log \o <<LogLine("save_error"), LogLine("error")>>
    /\ status' = "thrown"
    /\ caught' = <<[op |-> "write", path |-> TargetOf(CurrentFile)]>>
    /\ UNCHANGED <<fs, fs0, files, mode, idx, processedFiles, updatedFiles>>
    /\ UNCHANGED <<fileLines, tplVersion, runs>>
    /\ UNCHANGED <<dvars, rvars, xvars>>

\* the file is written but reading it back rejects: logged and thrown as a save error
VerifyFails ==
    /\ InLoop
    /\ fs[PathResolve(CurrentFile)] # Missing
    /\ LET lines == fs[PathResolve(CurrentFile)]
           target == TargetOf(CurrentFile)
       IN  /\ fs' = [fs EXCEPT ![PathResolve(target)] = Rewritten(lines)]
           /\ io' = io \o <<IoCall("access", CurrentFile, TRUE, <<>>),
                             IoCall("read", CurrentFile, TRUE, lines),
                             IoCall("write", target, TRUE, Rewritten(lines)),
                             IoCall("verify", target, FALSE, <<>>)>>
           /\ lastInput' = lines
           /\ lastTrace' = TraceOf(lines)
           /\ caught' = <<[op |-> "verify", path |-> target]>>
    /\ log' = log \o <<LogLine("success"), LogLine("save_error"), LogLine("error")>>
    /\ status' = "thrown"
    /\ UNCHANGED <<fs0, files, mode, idx, processedFiles, updatedFiles>>
    /\ UNCHANGED <<fileLines, tplVersion, runs>>
    /\ UNCHANGED <<dvars, rvars, xvars>>

\* the file is read, rewritten or rendered, written, read back and listed
WriteSucceeds ==
    /\ InLoop
    /\ fs[PathResolve(CurrentFile)] # Missing
    /\ LET lines == fs[PathResolve(CurrentFile)]
           target == TargetOf(CurrentFile)
       IN  /\ fs' = [fs EXCEPT ![PathResolve(target)] = Rewritten(lines)]
           /\ io' = io \o <<IoCall("access", CurrentFile, TRUE, <<>>),
                             IoCall("read", CurrentFile, TRUE, lines),
                             IoCall("write", target, TRUE, Rewritten(lines)),
                             IoCall("verify", target, TRUE, <<>>)>>
           /\ lastInput' = lines
           /\ lastTrace' = TraceOf(lines)
           /\ processedFiles' = Append(processedFiles, PathResolve(target))
    /\ log' = Append(log, LogLine("success"))
    /\ idx' = idx + 1
    /\ UNCHANGED <<fs0, files, mode, status, caught, updatedFiles>>
    /\ UNCHANGED <<fileLines, tplVersion, runs>>
    /\ UNCHANGED <<dvars, rvars, xvars>>

\* the loop is over: the list is returned and run pushes it onto updatedFiles
Return ==
    /\ status = "running"
    /\ idx > Len(files)
    /\ status' = "returned"
    /\ updatedFiles' = updatedFiles \o processedFiles
    /\ UNCHANGED <<fs, fs0, files, mode, idx, processedFiles, caught, log, io>>
    /\ UNCHANGED <<dvars, tvars, rvars, xvars>>

NextBatch ==
    \/ AccessFails
    \/ ReadFails
    \/ WriteFails
    \/ VerifyFails
    \/ WriteSucceeds
    \/ Return

SpecBatch == InitBatch /\ [][NextBatch]_vars

\* ================================================================ bump commands in comments
MaxComments == 3

\* A comment body is a sequence of words and white space characters.  The words
\* that matter to /\/bump\s+(major|minor)/i, in the spellings the bodies below use:
LowerCase(w) ==
    CASE w = "/BUMP" -> "/bump"
      [] w = "MAJOR" -> "major"
      [] w = "Minor" -> "minor"
      [] OTHER -> w

\* (major|minor) matched at the start of word w: the captured text, or NULL.
\* The expression is not anchored behind the kind, so "majority" matches too.
KindPrefix(w) ==
    CASE LowerCase(w) \in {"major", "majority"} -> "major"
      [] LowerCase(w) = "minor" -> "minor"
      [] OTHER -> NULL

Least(S) == CHOOSE m \in S : \A x \in S : m <= x

\* the match of /\/bump\s+(major|minor)/i that starts at element i of body:
\* match[1].toLowerCase(), or NULL when there is no match there
KindAt(body, i) ==
    IF LowerCase(body[i]) # "/bump" THEN NULL
    ELSE LET after == {j \in (i + 1)..Len(body) : ~IsSpace(body[j])}
         IN  IF after = {} \/ Least(after) = i + 1 THEN NULL
             ELSE KindPrefix(body[Least(after)])

\* body.match(/\/bump\s+(major|minor)/i): the leftmost match, or NULL
BumpMatch(body) ==
    LET starts == {i \in 1..Len(body) : KindAt(body, i) # NULL}
    IN  IF starts = {} THEN NULL ELSE KindAt(body, Least(starts))

\* comment.body || ''
BodyOf(c) == IF c = Undefined THEN <<>> ELSE c

NoBumpCommand == [hasBumpCommand |-> FALSE, bumpType |-> NULL, commentId |-> 0, error |-> FALSE]

\* findBumpCommandsInPR when listComments answers with the comments listed: the
\* for loop returns at the first comment whose body matches.  A comment's id is
\* its position in the list; prNumber 0 stands for a missing number (!prNumber).
findBumpCommandsInPR_lastWins(prNumber, listed) ==
    LET hits == {i \in 1..Len(listed) : BumpMatch(BodyOf(listed[i])) # NULL}
    IN  IF prNumber = 0 \/ hits = {} THEN NoBumpCommand
        ELSE LET i == CHOOSE m \in hits : \A x \in hits : x <= m
             IN [hasBumpCommand |-> TRUE, bumpType |-> BumpMatch(BodyOf(listed[i])),
                 commentId |-> i, error |-> FALSE]
findBumpCommandsInPR(prNumber, listed) ==
    LET hits == {i \in 1..Len(listed) : BumpMatch(BodyOf(listed[i])) # NULL}
    IN  IF prNumber = 0 \/ hits = {} THEN NoBumpCommand
        ELSE [hasBumpCommand |-> TRUE, bumpType |-> BumpMatch(BodyOf(listed[Least(hits)])),
              commentId |-> Least(hits), error |-> FALSE]

CommentBodies ==
    {Undefined,
     <<"please", " ", "review">>,
     <<"/bump", " ", "major">>,
     <<"/BUMP", " ", "\n", "Minor">>,
     <<"/bump", "major">>,
     <<"/bump", " ", "patch", " ", "/bump", " ", "minor">>,
     <<"/bump", " ", "minor", " ", "/bump", " ", "MAJOR">>,
     <<"no", " ", "/bump", " ", "majority">>}

InitComments ==
    /\ prComments \in SeqsUpTo(CommentBodies, MaxComments)
    /\ bumpCommandResult = NotCalled
    /\ InitDecisionIdle
    /\ InitTemplateIdle
    /\ InitRenderIdle
    /\ InitBatchIdle
    /\ InitMergeIdle
    /\ InitWorkflowIdle
    /\ InitBranchIdle

\* findBumpCommandsInPR(octokit, context, prNumber) returns
FindBumpCommands ==
    /\ bumpCommandResult = NotCalled
    /\ bumpCommandResult' = <<findBumpCommandsInPR(1, prComments)>>
    /\ UNCHANGED prComments
    /\ UNCHANGED <<dvars, tvars, rvars, bvars, mvars, wvars, gvars>>

\* listComments rejects: the catch returns hasBumpCommand false with the error
FindBumpCommandsFails ==
    /\ bumpCommandResult = NotCalled
    /\ bumpCommandResult' = <<[NoBumpCommand EXCEPT !.error = TRUE]>>
    /\ UNCHANGED prComments
    /\ UNCHANGED <<dvars, tvars, rvars, bvars, mvars, wvars, gvars>>

NextComments == FindBumpCommands \/ FindBumpCommandsFails

SpecComments == InitComments /\ [][NextComments]_vars

\* ================================================================ the changelog table
MaxEntries == 2

\* typeOrder[type] || 99
TypeOrder(type) ==
    CASE type = "feat" -> 1
      [] type = "fix" -> 2
      [] type = "perf" -> 3
      [] type = "refactor" -> 4
      [] type = "docs" -> 5
      [] OTHER -> 99

TypeRanks == {1, 2, 3, 4, 5, 99}

\* entriesMap.set(entry.commit, entry) on a Map held as the sequence of its
\* values in insertion order: a key that is present keeps its place and takes
\* the new value, a new key goes last
MapSet_keepFirst(map, entry) ==
    IF \E i \in 1..Len(map) : map[i].commit = entry.commit
    THEN map
    ELSE Append(map, entry)
MapSet(map, entry) ==
    IF \E i \in 1..Len(map) : map[i].commit = entry.commit
    THEN [i \in 1..Len(map) |-> IF map[i].commit = entry.commit THEN entry ELSE map[i]]
    ELSE Append(map, entry)

RECURSIVE SetEach(_, _)
SetEach(map, entries) ==
    IF entries = <<>> THEN map
    ELSE SetEach(MapSet(map, Head(entries)), Tail(entries))

\* Array.prototype.sort with the typeOrder comparator: the sort is stable, so
\* entries of one rank keep the Map's order
RECURSIVE SortByType(_, _)
SortByType(values, ranks) ==
    IF ranks = {} THEN <<>>
    ELSE LET r == Least(ranks)
             OfRank(e) == TypeOrder(e.type) = r
         IN  SelectSeq(values, OfRank) \o SortByType(values, ranks \ {r})

\* the entries the first copy of the function lets through: !entry.commit skips
ValidEntries(entries) ==
    LET HasCommit(e) == e.commit # ""
    IN  SelectSeq(entries, HasCommit)

\* changelogTable.js declares the function three times.  The first copy
\* validates its entries, the later two (and the bundled one) do not.
mergeChangelogEntries(existingEntries, newEntries, validating) ==
    LET old == IF validating THEN ValidEntries(existingEntries) ELSE existingEntries
        new == IF validating THEN ValidEntries(newEntries) ELSE newEntries
    IN  SortByType(SetEach(SetEach(<<>>, old), new), TypeRanks)

\* "" is the commit of an entry that has none
ChangelogEntries ==
    {[commit |-> c, type |-> t] : c \in {"abc1234", "def9876"}, t \in {"feat", "docs", "chore"}}
        \cup {[commit |-> "", type |-> "fix"]}

InitMerge ==
    /\ tableEntries \in SeqsUpTo(ChangelogEntries, MaxEntries)
    /\ commitEntries \in SeqsUpTo(ChangelogEntries, MaxEntries)
    /\ mergedEntries = NotCalled
    /\ InitDecisionIdle
    /\ InitTemplateIdle
    /\ InitRenderIdle
    /\ InitBatchIdle
    /\ InitCommentsIdle
    /\ InitWorkflowIdle
    /\ InitBranchIdle

\* mergeChangelogEntries(existingEntries, newEntries), first copy
MergeValidating ==
    /\ mergedEntries = NotCalled
    /\ mergedEntries' = <<mergeChangelogEntries(tableEntries, commitEntries, TRUE)>>
    /\ UNCHANGED <<tableEntries, commitEntries>>
    /\ UNCHANGED <<dvars, tvars, rvars, bvars, cvars, wvars, gvars>>

\* mergeChangelogEntries(existingEntries, newEntries), the copies without validation
MergeUnchecked ==
    /\ mergedEntries = NotCalled
    /\ mergedEntries' = <<mergeChangelogEntries(tableEntries, commitEntries, FALSE)>>
    /\ UNCHANGED <<tableEntries, commitEntries>>
    /\ UNCHANGED <<dvars, tvars, rvars, bvars, cvars, wvars, gvars>>

NextMerge == MergeValidating \/ MergeUnchecked

SpecMerge == InitMerge /\ [][NextMerge]_vars

\* ================================================================ the release workflow
MaxPulls == 2
MaxPending == 2
MaxThread == 1
MaxMerges == 2

\* `${prefix}${version}` with the default prefix; a version string is held as
\* its three numbers
PrimaryTag(parts) == <<"v">> \o parts
IsPrimaryTag(name) == Len(name) = 4
TagVersion(name) == V(name[2], name[3], name[4])

\* determineVersionBump's currentVersion: the highest tag that is a valid
\* version ("latest", "v1" and "v1.2" are not), or 0.0.0
CurrentVersionOf(tagset) ==
    LET vs == {TagVersion(t.name) : t \in {u \in tagset : IsPrimaryTag(u.name)}}
    IN  IF vs = {} THEN V(0, 0, 0)
        ELSE CHOOSE v \in vs : \A w \in vs : SemverCompare(w, v) <= 0

\* tagRelease's additionalTags
AdditionalTags(parts, cfg) ==
    (IF cfg.tagLatest THEN {<<"latest">>} ELSE {})
        \cup (IF cfg.tagMajor THEN {<<"v", parts[1]>>} ELSE {})
        \cup (IF cfg.tagMinor THEN {<<"v", parts[1], parts[2]>>} ELSE {})

\* the commit tagRelease works with: the one an existing primary tag points at,
\* or else the head of the release branch
TagCommit(tagset, parts, head) ==
    LET existing == {t \in tagset : t.name = PrimaryTag(parts)}
    IN  IF existing # {} THEN (CHOOSE t \in existing : TRUE).sha ELSE head

\* tagRelease(octokit, context, version, config): the tags of the repository
\* after the call.  The primary tag is created when getRef answers 404 and is
\* left alone otherwise; every additional tag is created or forced to commitSha.
tagRelease_moving(tagset, parts, head, cfg) ==
    LET moved == AdditionalTags(parts, cfg) \cup {PrimaryTag(parts)}
    IN  {t \in tagset : t.name \notin moved} \cup {[name |-> a, sha |-> head] : a \in moved}
tagRelease(tagset, parts, head, cfg) ==
    LET commitSha == TagCommit(tagset, parts, head)
        withPrimary == tagset \cup {[name |-> PrimaryTag(parts), sha |-> commitSha]}
        additional == AdditionalTags(parts, cfg)
    IN  {t \in withPrimary : t.name \notin additional}
            \cup {[name |-> a, sha |-> commitSha] : a \in additional}

\* the commits pushed to the merge branch
WorkflowCommits ==
    {Commit(<<"feat">>, Undefined, <<>>),
     Commit(<<"fix">>, Undefined, <<>>),
     Commit(<<"docs">>, Undefined, <<>>)}

\* what reviewers write on a pull request
ThreadBodies ==
    {<<"/bump", " ", "major">>, <<"/bump", " ", "minor">>}

\* An open pull request into the release branch: head is "staging" for a branch
\* named `${config.stagingBranch}-v${version}` and "feature" for any other
\* branch.  The version of a staging branch's name is also the version its files
\* are rendered for.
StagingPull(parts) == [head |-> "staging", version |-> parts]
FeaturePull == [head |-> "feature", version |-> NoVersion]

InitWorkflow ==
    /\ tags = {[name |-> PrimaryTag(<<1, 0, 0>>), sha |-> 0]}
    /\ releaseHead = 0
    /\ releaseFiles = <<1, 0, 0>>
    /\ pulls = {}
    /\ pending = <<>>
    /\ tagConfig = [tagLatest |-> TRUE, tagMajor |-> TRUE, tagMinor |-> TRUE]
    /\ lastRun = NoRun
    /\ InitDecisionIdle
    /\ InitTemplateIdle
    /\ InitRenderIdle
    /\ InitBatchIdle
    /\ InitCommentsIdle
    /\ InitMergeIdle
    /\ InitBranchIdle

\* run() from the commit analysis on (index.js 280-470): analyzeCommits,
\* determineVersionBump, the return when there is no bump, the rendering of the
\* version and template files, createOrUpdatePR.  payload is
\* context.payload.pull_request, NoPull when the event carries none; open is
\* the set of open pull requests the run finds.
AnalysisPath_noReturn(ev, payload, consulted, commitList, open) ==
    LET r == determineVersionBump(FilterCommits(ParseCommits(commitList)),
                                  CurrentVersionOf(tags), NULL)
        newV == VersionParts(r.newVersion)
        seen == [NoRun EXCEPT !.event = ev, !.pull = payload, !.consulted = consulted,
                              !.analyzed = TRUE, !.bumpType = r.bumpType,
                              !.currentVersion = VersionParts(r.currentVersion),
                              !.newVersion = newV]
    IN  IF payload # NoPull
        THEN \* createOrUpdatePR hands over to updateExistingPR
             /\ lastRun' = [seen EXCEPT !.runType = "pr", !.rendered = newV, !.updated = payload]
             /\ pulls' = open
        ELSE IF StagingPull(newV) \in open
        THEN \* step 6 found an open pull request whose head is staging-v<newVersion>
             /\ lastRun' = [seen EXCEPT !.runType = "pr", !.rendered = newV,
                                        !.updated = StagingPull(newV)]
             /\ pulls' = open
        ELSE /\ Cardinality(open) < MaxPulls
             /\ lastRun' = [seen EXCEPT !.runType = "pr", !.rendered = newV,
                                        !.created = StagingPull(newV)]
             /\ pulls' = open \cup {StagingPull(newV)}
AnalysisPath(ev, payload, consulted, commitList, open) ==
    LET r == determineVersionBump(FilterCommits(ParseCommits(commitList)),
                                  CurrentVersionOf(tags), NULL)
        newV == VersionParts(r.newVersion)
        seen == [NoRun EXCEPT !.event = ev, !.pull = payload, !.consulted = consulted,
                              !.analyzed = TRUE, !.bumpType = r.bumpType,
                              !.currentVersion = VersionParts(r.currentVersion),
                              !.newVersion = newV]
    IN  IF r.bumpType = NULL
        THEN /\ lastRun' = [seen EXCEPT !.runType = "none"]
             /\ pulls' = open
        ELSE IF payload # NoPull
        THEN \* createOrUpdatePR hands over to updateExistingPR
             /\ lastRun' = [seen EXCEPT !.runType = "pr", !.rendered = newV, !.updated = payload]
             /\ pulls' = open
        ELSE IF StagingPull(newV) \in open
        THEN \* step 6 found an open pull request whose head is staging-v<newVersion>
             /\ lastRun' = [seen EXCEPT !.runType = "pr", !.rendered = newV,
                                        !.updated = StagingPull(newV)]
             /\ pulls' = open
        ELSE /\ Cardinality(open) < MaxPulls
             /\ lastRun' = [seen EXCEPT !.runType = "pr", !.rendered = newV,
                                        !.created = StagingPull(newV)]
             /\ pulls' = open \cup {StagingPull(newV)}

\* run() on the release path (index.js 165-278): the version of the branch name,
\* or 0.0.0 when there is none and a bump command was found, replaced by
\* applyBumpCommand when a command was found, then tagRelease
ReleasePath_ignoringCommand(ev, payload, found, head, headFiles) ==
    LET branchVersion == payload.version
        fromBranch == IF branchVersion = NoVersion THEN <<0, 0, 0>> ELSE branchVersion
        tagged == fromBranch
    IN  /\ tags' = tagRelease(tags, tagged, head, tagConfig)
        /\ lastRun' = [NoRun EXCEPT !.event = ev, !.pull = payload, !.consulted = TRUE,
                                    !.runType = "release", !.branchVersion = branchVersion,
                                    !.found = found.hasBumpCommand,
                                    !.bumpType = found.bumpType, !.tagged = tagged,
                                    !.newVersion = tagged,
                                    !.tagExisted = \E t \in tags : t.name = PrimaryTag(tagged),
                                    !.taggedFiles = headFiles]
ReleasePath(ev, payload, found, head, headFiles) ==
    LET branchVersion == payload.version
        fromBranch == IF branchVersion = NoVersion THEN <<0, 0, 0>> ELSE branchVersion
        tagged == IF found.hasBumpCommand
                  THEN applyBumpCommand(fromBranch, found.bumpType)
                  ELSE fromBranch
    IN  /\ tags' = tagRelease(tags, tagged, head, tagConfig)
        /\ lastRun' = [NoRun EXCEPT !.event = ev, !.pull = payload, !.consulted = TRUE,
                                    !.runType = "release", !.branchVersion = branchVersion,
                                    !.found = found.hasBumpCommand,
                                    !.bumpType = found.bumpType, !.tagged = tagged,
                                    !.newVersion = tagged,
                                    !.tagExisted = \E t \in tags : t.name = PrimaryTag(tagged),
                                    !.taggedFiles = headFiles]

\* commits land on the merge branch and the push event starts a run: no pull
\* request in the payload, detectReleasePR answers null for a push that is not
\* to the release branch
PushToMergeBranch ==
    \E c \in WorkflowCommits :
        /\ Len(pending) < MaxPending
        /\ pending' = Append(pending, c)
        /\ AnalysisPath("push", NoPull, FALSE, pending', pulls)
        /\ UNCHANGED <<tags, releaseHead, releaseFiles, tagConfig>>
        /\ UNCHANGED <<dvars, tvars, rvars, bvars, cvars, mvars, gvars>>

\* somebody opens a pull request into the release branch from a branch that is
\* not a staging branch; no run is started
OpenFeaturePull ==
    /\ Cardinality(pulls) < MaxPulls
    /\ FeaturePull \notin pulls
    /\ pulls' = pulls \cup {FeaturePull}
    /\ UNCHANGED <<tags, releaseHead, releaseFiles, pending, tagConfig, lastRun>>
    /\ UNCHANGED <<dvars, tvars, rvars, bvars, cvars, mvars, gvars>>

\* An open pull request is merged into the release branch.  A staging branch
\* holds the merge branch as it was when a run last touched it, so the merge
\* takes some of the oldest pending commits with it.
Merge(pull) ==
    /\ releaseHead < MaxMerges
    /\ releaseHead' = releaseHead + 1
    /\ releaseFiles' = IF pull.head = "staging" THEN pull.version ELSE releaseFiles
    /\ IF pull.head = "staging"
       THEN \E k \in 0..Len(pending) : pending' = SubSeq(pending, k + 1, Len(pending))
       ELSE pending' = pending

\* the pull_request closed event of the merge starts the run; thread is what
\* listComments answers for the pull request at that time
MergePull ==
    \E pull \in pulls : \E thread \in SeqsUpTo(ThreadBodies, MaxThread) :
        /\ Merge(pull)
        /\ LET found == findBumpCommandsInPR(1, thread)
           IN  IF pull.head = "staging" \/ found.hasBumpCommand
               THEN /\ ReleasePath("pull_request", pull, found, releaseHead', releaseFiles')
                    /\ pulls' = pulls \ {pull}
               ELSE /\ AnalysisPath("pull_request", pull, TRUE, pending', pulls \ {pull})
                    /\ UNCHANGED tags
        /\ UNCHANGED tagConfig
        /\ UNCHANGED <<dvars, tvars, rvars, bvars, cvars, mvars, gvars>>

\* the push event of the merge commit starts the run: detectReleasePR answers
\* with the pull request when its head is a staging branch, with null otherwise
MergeSeenAsPush ==
    \E pull \in pulls : \E thread \in SeqsUpTo(ThreadBodies, MaxThread) :
        /\ Merge(pull)
        /\ IF pull.head = "staging"
           THEN /\ ReleasePath("push", pull, findBumpCommandsInPR(1, thread),
                               releaseHead', releaseFiles')
                /\ pulls' = pulls \ {pull}
           ELSE /\ AnalysisPath("push", NoPull, FALSE, pending', pulls \ {pull})
                /\ UNCHANGED tags
        /\ UNCHANGED tagConfig
        /\ UNCHANGED <<dvars, tvars, rvars, bvars, cvars, mvars, gvars>>

NextWorkflow ==
    \/ PushToMergeBranch
    \/ OpenFeaturePull
    \/ MergePull
    \/ MergeSeenAsPush

SpecWorkflow == InitWorkflow /\ [][NextWorkflow]_vars

\* ================================================================ templateFiles entries as objects
\* the entries of templateFiles in the form the README documents:
\*   - path: package.tpl.json
\*     output: package.json
ObjectEntries ==
    {[path |-> <<"./", "config", ".tpl", ".json">>, output |-> <<"config", ".json">>],
     [path |-> <<"./", "version", ".js">>, output |-> <<"src/", "VERSION">>]}

InitEntries ==
    /\ fs \in {d \in [AllPaths -> DiskContents \cup {Missing}] :
                 \A q \in AllPaths : q \notin {PathResolve(p) : p \in InputPaths} => d[q] = Missing}
    /\ fs0 = fs
    /\ files \in SeqsUpTo(ObjectEntries, MaxBatch) \ {<<>>}
    /\ mode = "template"
    /\ idx = 1
    /\ processedFiles = <<>>
    /\ status = "running"
    /\ caught = NoError
    /\ log = <<>>
    /\ io = <<>>
    /\ updatedFiles = <<>>
    /\ fileLines = <<>>
    /\ tplVersion = <<"1", ".", "2", ".", "3">>
    /\ runs = 0
    /\ lastInput = <<>>
    /\ lastTrace = NoTrace
    /\ InitDecisionIdle
    /\ InitRenderIdle
    /\ InitExtIdle

\* processTemplateFiles on an entry that is an object: fs.access(templateFile)
\* rejects for an argument that is not a string, a Buffer or a URL; the catch
\* around it reports the file as missing and continues with the next entry
EntryRejected ==
    /\ InLoop
    /\ mode = "template"
    /\ io' = Append(io, IoCall("access", CurrentFile, FALSE, <<>>))
    /\ log' = Append(log, LogLine("missing"))
    /\ idx' = idx + 1
    /\ UNCHANGED <<fs, fs0, files, mode, processedFiles, status, caught, updatedFiles>>
    /\ UNCHANGED <<dvars, tvars, rvars, xvars>>

NextEntries == EntryRejected \/ Return

SpecEntries == InitEntries /\ [][NextEntries]_vars

\* ================================================================ commitMultipleFilesToStaging
MaxOther == 2

BranchPaths == {"CHANGELOG.md", "package.json", "README.md"}

\* createTree({ base_tree, tree: fileBlobs }): the base tree with the call's
\* files in place of what it held at their paths
CreateTree(base, paths) == [p \in BranchPaths |-> IF p \in paths THEN "ours" ELSE base[p]]

InitBranch ==
    /\ branchHead = 0
    /\ branchTree = [p \in BranchPaths |-> "base"]
    /\ commitFiles \in SUBSET BranchPaths
    /\ commitPc = "start"
    /\ baseTreeSha = 0
    /\ newTree = <<>>
    /\ latestSha = 0
    /\ landed = {}
    /\ InitDecisionIdle
    /\ InitTemplateIdle
    /\ InitRenderIdle
    /\ InitBatchIdle
    /\ InitCommentsIdle
    /\ InitMergeIdle
    /\ InitWorkflowIdle

\* files.length === 0: 'No files to commit', return
NoFilesToCommit ==
    /\ commitPc = "start"
    /\ commitFiles = {}
    /\ commitPc' = "done"
    /\ UNCHANGED <<branchHead, branchTree, commitFiles, baseTreeSha, newTree, latestSha, landed>>
    /\ UNCHANGED <<dvars, tvars, rvars, bvars, cvars, mvars, wvars>>

\* getRef(heads/branch), getCommit, createBlob, createTree, createCommit: the new
\* commit has the head that was read as its parent and that head's tree plus the
\* files as its tree
BuildCommit ==
    /\ commitPc = "start"
    /\ commitFiles # {}
    /\ baseTreeSha' = branchHead
    /\ newTree' = CreateTree(branchTree, commitFiles)
    /\ commitPc' = "built"
    /\ UNCHANGED <<branchHead, branchTree, commitFiles, latestSha, landed>>
    /\ UNCHANGED <<dvars, tvars, rvars, bvars, cvars, mvars, wvars>>

\* updateRef without force: accepted when the branch still points at the parent
\* of the new commit, rejected with 'Update is not a fast forward' otherwise
UpdateRef ==
    /\ commitPc = "built"
    /\ IF branchHead = baseTreeSha
       THEN /\ branchHead' = branchHead + 1
            /\ branchTree' = newTree
            /\ commitPc' = "done"
       ELSE /\ commitPc' = "rejected"
            /\ UNCHANGED <<branchHead, branchTree>>
    /\ UNCHANGED <<commitFiles, baseTreeSha, newTree, latestSha, landed>>
    /\ UNCHANGED <<dvars, tvars, rvars, bvars, cvars, mvars, wvars>>

\* updateRef fails for another reason: the error is rethrown
UpdateRefFails ==
    /\ commitPc = "built"
    /\ commitPc' = "thrown"
    /\ UNCHANGED <<branchHead, branchTree, commitFiles, baseTreeSha, newTree, latestSha, landed>>
    /\ UNCHANGED <<dvars, tvars, rvars, bvars, cvars, mvars, wvars>>

\* the catch: getRef again, createCommit with the tree created before
\* (newTree.sha) and the latest head as parent
RereadHead ==
    /\ commitPc = "rejected"
    /\ latestSha' = branchHead
    /\ commitPc' = "recommitted"
    /\ UNCHANGED <<branchHead, branchTree, commitFiles, baseTreeSha, newTree, landed>>
    /\ UNCHANGED <<dvars, tvars, rvars, bvars, cvars, mvars, wvars>>

\* updateRef with force: true: the branch points at the second commit,
\* whatever it pointed at
ForceUpdateRef ==
    /\ commitPc = "recommitted"
    /\ branchHead' = branchHead + 1
    /\ branchTree' = newTree
    /\ commitPc' = "done"
    /\ UNCHANGED <<commitFiles, baseTreeSha, newTree, latestSha, landed>>
    /\ UNCHANGED <<dvars, tvars, rvars, bvars, cvars, mvars, wvars>>

\* somebody else commits a change of one path to the branch
OtherCommit ==
    \E p \in BranchPaths :
        /\ branchHead < MaxOther
        /\ commitPc \notin {"done", "thrown"}
        /\ branchHead' = branchHead + 1
        /\ branchTree' = [branchTree EXCEPT ![p] = "theirs"]
        /\ landed' = IF commitPc = "start" THEN landed ELSE landed \cup {p}
        /\ UNCHANGED <<commitFiles, commitPc, baseTreeSha, newTree, latestSha>>
        /\ UNCHANGED <<dvars, tvars, rvars, bvars, cvars, mvars, wvars>>

NextBranch ==
    \/ NoFilesToCommit
    \/ BuildCommit
    \/ UpdateRef
    \/ UpdateRefFails
    \/ RereadHead
    \/ ForceUpdateRef
    \/ OtherCommit

SpecBranch == InitBranch /\ [][NextBranch]_vars

\* ================================================================ properties
\* ---- vocabulary of the properties of the decision engine ----
Decided == pc \in {"idle", "pr_open", "released"}
Analyzed == pc # "start"
HasOverride == releaseAs \in {"major", "minor", "patch"}
Rank(k) == CASE k = "major" -> 3 [] k = "minor" -> 2 [] k = "patch" -> 1 [] OTHER -> 0
MaxOf(S) == CHOOSE m \in S : \A x \in S : x <= m
HasBang(t) == t # Undefined /\ t # <<>> /\ t[Len(t)] = "!"
HasBreakingNote(n) ==
    n # Undefined /\ \E i \in DOMAIN n : n[i] \in {"BREAKING CHANGE", "BREAKING-CHANGE"}
\* the standard increment of a release triple
Standard(v, k) ==
    CASE k = "major" -> V(v.major + 1, 0, 0)
      [] k = "minor" -> V(v.major, v.minor + 1, 0)
      [] k = "patch" -> V(v.major, v.minor, v.patch + 1)

\* C2: getBumpTypeForCommit answers for every parsed commit, by the rule table in
\* priority order: a type ending in "!" or a BREAKING CHANGE / BREAKING-CHANGE note
\* gives major whatever the type; otherwise feat gives minor; otherwise fix, perf,
\* refactor give patch; every other type, empty or missing included, gives no bump.
Thm_C2_ClassifyRuleTable ==
    Analyzed =>
        /\ Len(parsedCommits) = Len(rangeCommits)
        /\ \A i \in 1..Len(rangeCommits) :
              LET c == rangeCommits[i]
                  b == parsedCommits[i].bumpType
              IN  /\ b \in {"major", "minor", "patch", NULL}
                  /\ (HasBang(c.type) \/ HasBreakingNote(c.notes)) => b = "major"
                  /\ ~(HasBang(c.type) \/ HasBreakingNote(c.notes)) =>
                        /\ c.type = <<"feat">> => b = "minor"
                        /\ c.type \in {<<"fix">>, <<"perf">>, <<"refactor">>} => b = "patch"
                        /\ c.type \notin {<<"feat">>, <<"fix">>, <<"perf">>, <<"refactor">>}
                              => b = NULL

\* C2 witness: a docs commit with a breaking note among its notes was classified major.
Wit_C2_ClassifyRuleTable ==
    /\ pc = "analyzed"
    /\ Len(rangeCommits) = 1
    /\ rangeCommits[1].type = <<"docs">>
    /\ rangeCommits[1].notes = <<"NOTE", "BREAKING CHANGE">>
    /\ parsedCommits[1].bumpType = "major"

Thm_C4_PreOneDampening ==
    (Decided /\ result.bumpType # NULL /\ currentVersion.major = 0) =>
        /\ result.bumpType = "major" => result.newBumpType = "minor"
        /\ result.bumpType = "minor" => result.newBumpType = "patch"
        /\ result.bumpType = "patch" => result.newBumpType = "patch"
        /\ currentVersion.pre = "" =>
              /\ result.bumpType = "major" =>
                    result.newVersion = V(0, currentVersion.minor + 1, 0)
              /\ result.bumpType \in {"minor", "patch"} =>
                    result.newVersion = V(0, currentVersion.minor, currentVersion.patch + 1)

\* C4 witness: 0.9.5 with a breaking change became 0.10.0.
Wit_C4_PreOneDampening ==
    /\ Decided
    /\ currentVersion = V(0, 9, 5)
    /\ result.aggregated = "major"
    /\ result.bumpType = "major"
    /\ result.newVersion = V(0, 10, 0)

\* C5, as claimed: for every currentVersion with major >= 1, with or without a
\* prerelease suffix, the increment is by the undampened kind with the standard
\* semantics.
Cex_C5_NoDampeningFromOne ==
    (Decided /\ result.bumpType # NULL /\ currentVersion.major >= 1) =>
        /\ result.newBumpType = result.bumpType
        /\ result.newVersion = Standard(currentVersion, result.bumpType)

\* C5, amended: the kind is lowered only when currentVersion is below 1.0.0 in semver
\* precedence (major = 0, or 1.0.0 with a prerelease suffix); for every currentVersion
\* with major >= 1 and no prerelease suffix the increment is by the undampened kind
\* with the standard semantics.
Thm_C5_NoDampeningFromOne ==
    (Decided /\ result.bumpType # NULL) =>
        /\ (currentVersion.major >= 1 /\ currentVersion.pre = "") =>
              /\ result.newBumpType = result.bumpType
              /\ result.newVersion = Standard(currentVersion, result.bumpType)
        /\ result.newBumpType # result.bumpType =>
              \/ currentVersion.major = 0
              \/ /\ currentVersion.major = 1 /\ currentVersion.minor = 0
                 /\ currentVersion.patch = 0 /\ currentVersion.pre # ""

\* C5 witness: 1.1.1 with a breaking change became 2.0.0.
Wit_C5_NoDampeningFromOne ==
    /\ Decided
    /\ currentVersion = V(1, 1, 1)
    /\ result.bumpType = "major"
    /\ result.newBumpType = "major"
    /\ result.newVersion = V(2, 0, 0)

\* C6: every decision has newVersion >= currentVersion, and newVersion = currentVersion
\* exactly when bumpType is none.
Thm_C6_NewVersionOrder ==
    Decided =>
        /\ result.currentVersion = currentVersion
        /\ SemverCompare(result.newVersion, result.currentVersion) >= 0
        /\ (result.newVersion = result.currentVersion) <=> (result.bumpType = NULL)

\* C6 witness: a patch bump of a prerelease, whose new version has the same triple.
Wit_C6_NewVersionOrder ==
    /\ Decided
    /\ currentVersion.pre # ""
    /\ result.bumpType = "patch"
    /\ result.newVersion.patch = currentVersion.patch
    /\ result.newVersion # currentVersion

\* C7: without an override, a currentVersion with major = 0 gives a newVersion with
\* major = 0, whatever the commits.
Thm_C7_NoAutomaticOneZero ==
    (Decided /\ currentVersion.major = 0 /\ ~HasOverride) => result.newVersion.major = 0

\* C7 witness: a breaking change on a 0.x version, no override, and major still 0.
Wit_C7_NoAutomaticOneZero ==
    /\ Decided
    /\ currentVersion.major = 0
    /\ ~HasOverride
    /\ result.bumpType = "major"
    /\ result.newVersion.major = 0
    /\ result.newVersion.minor = currentVersion.minor + 1

\* ---- C8: the scenario [feat, fix(no-release)] on 0.4.0 ----
ScenarioC8 ==
    /\ Decided
    /\ rangeCommits = <<Commit(<<"feat">>, Undefined, <<>>),
                        Commit(<<"fix">>, <<"no-release">>, <<>>)>>
    /\ currentVersion = V(0, 4, 0)
    /\ ~HasOverride

\* C8, as claimed: the excluded commit is dropped, the kind is minor, the pre-1.0 rule
\* leaves minor as minor, and newVersion is 0.5.0.
Cex_C8_ScenarioFeatNoRelease ==
    ScenarioC8 =>
        /\ Len(commits) = 1 /\ commits[1].parsed.type = <<"feat">>
        /\ result.aggregated = "minor"
        /\ result.newBumpType = "minor"
        /\ result.newVersion = V(0, 5, 0)

\* C8, amended: the excluded commit is dropped, the kind is minor, the pre-1.0 rule
\* lowers minor to patch, and newVersion is 0.4.1.
Thm_C8_ScenarioFeatNoRelease ==
    ScenarioC8 =>
        /\ Len(commits) = 1 /\ commits[1].parsed.type = <<"feat">>
        /\ result.aggregated = "minor"
        /\ result.bumpType = "minor"
        /\ result.newBumpType = "patch"
        /\ result.newVersion = V(0, 4, 1)

\* C8 witness: the scenario has been decided.
Wit_C8_ScenarioFeatNoRelease == ScenarioC8 /\ result.newVersion = V(0, 4, 1)

\* C9: /bump minor leaves the version unchanged exactly when patch = 0 and otherwise
\* gives major.(minor+1).0; /bump major leaves it unchanged exactly when minor = 0 and
\* patch = 0 and otherwise gives (major+1).0.0.
Thm_C9_BumpCommand ==
    (pc = "released" /\ bumpCommand # NULL) =>
        LET v == VersionParts(result.newVersion)
        IN  /\ bumpCommand = "minor" =>
                  /\ (version = v) <=> (v[3] = 0)
                  /\ v[3] # 0 => version = <<v[1], v[2] + 1, 0>>
            /\ bumpCommand = "major" =>
                  /\ (version = v) <=> (v[2] = 0 /\ v[3] = 0)
                  /\ ~(v[2] = 0 /\ v[3] = 0) => version = <<v[1] + 1, 0, 0>>

\* C9 witness: /bump major on a version with minor # 0 and patch = 0 gave the next major.
Wit_C9_BumpCommand ==
    /\ pc = "released"
    /\ bumpCommand = "major"
    /\ result.newVersion.minor # 0
    /\ result.newVersion.patch = 0
    /\ version = <<result.newVersion.major + 1, 0, 0>>

\* C1: processVersionFiles run again with the same version on its own output leaves
\* the file as it is.
Thm_C1_Idempotent ==
    runs >= 2 => fileLines = lastInput

\* C1 witness: a second run that found a multi-line template followed by the line
\* rendered from it, skipped that line and wrote it again.
Wit_C1_Idempotent ==
    /\ runs = 2
    /\ fileLines = lastInput
    /\ \E k \in 1..Len(lastTrace.regions) :
          /\ lastTrace.regions[k].end > lastTrace.regions[k].start
          /\ lastTrace.regions[k].skipped >= 1
    /\ \E p \in 1..Len(fileLines) : lastTrace.origin[p] = 0 /\ fileLines[p] = <<"1">>

\* C10: every line holding the opening marker is in the output unchanged, and the
\* lines of a multi-line template, from the one after the opener through the one
\* holding the closing %%, follow it there unchanged and in order.
Thm_C10_MarkersPreserved ==
    runs >= 1 =>
        /\ Len(lastTrace.origin) = Len(fileLines)
        /\ \A i \in 1..Len(lastInput) :
              StrIncludes(lastInput[i], OPEN_MARKER) =>
                  \E p \in 1..Len(fileLines) :
                      lastTrace.origin[p] = i /\ fileLines[p] = lastInput[i]
        /\ \A r \in 1..Len(lastTrace.regions) :
              LET s == lastTrace.regions[r].start
                  e == lastTrace.regions[r].end
              IN  \E p \in 1..Len(fileLines) :
                      \A k \in s..e :
                          /\ p + (k - s) <= Len(fileLines)
                          /\ lastTrace.origin[p + (k - s)] = k
                          /\ fileLines[p + (k - s)] = lastInput[k]

\* C10 witness: a run over a file with a multi-line template of three lines whose
\* implementation it replaced.
Wit_C10_MarkersPreserved ==
    /\ runs = 1
    /\ \E r \in 1..Len(lastTrace.regions) :
          /\ lastTrace.regions[r].end = lastTrace.regions[r].start + 2
          /\ lastTrace.regions[r].skipped >= 1
          /\ fileLines[lastTrace.regions[r].end] = lastInput[lastTrace.regions[r].end]
    /\ fileLines # lastInput

\* ---- vocabulary of the properties of the template rewrite ----
\* the lines of `lines` after line e and before the next line holding an opening
\* marker, or the end of the file
LinesBeforeNextMarker(lines, e) ==
    LET opens == {j \in (e + 1)..Len(lines) : StrIncludes(lines[j], OPEN_MARKER)}
        next == IF opens = {} THEN Len(lines) + 1
                ELSE CHOOSE j \in opens : \A h \in opens : j <= h
    IN  next - e - 1

\* the position in the output of the copy of input line i, 0 when it has none
OutputPosition(i) ==
    LET ps == {p \in 1..Len(lastTrace.origin) : lastTrace.origin[p] = i}
    IN  IF ps = {} THEN 0 ELSE CHOOSE p \in ps : TRUE

OneTwoThree == <<"1", ".", "2", ".", "3">>

\* C11: for every terminated template region the rewrite discards exactly min(R, k)
\* lines directly after the closing-marker line, R the number of rendered lines and k
\* the number of lines before the next opening-marker line or the end of the file, and
\* emits the R rendered lines in their place. A single-line marker v{{version}} followed
\* by v9.9.9 gives v1.2.3 for 1.2.3; a template rendering to two lines, followed by
\* three lines, replaces two of them and leaves the third.
Thm_C11_ImplementationReplaced ==
    runs >= 1 =>
        /\ \A r \in 1..Len(lastTrace.regions) :
              LET e == lastTrace.regions[r].end
                  R == lastTrace.regions[r].rendered
                  d == lastTrace.regions[r].skipped
                  p == OutputPosition(e)
              IN  /\ d = Min(R, LinesBeforeNextMarker(lastInput, e))
                  /\ p # 0
                  /\ p + R <= Len(fileLines)
                  /\ \A q \in 1..R : lastTrace.origin[p + q] = 0
                  /\ IF p + R = Len(fileLines) THEN e + d = Len(lastInput)
                     ELSE /\ lastTrace.origin[p + R + 1] = e + d + 1
                          /\ fileLines[p + R + 1] = lastInput[e + d + 1]
        /\ (/\ tplVersion = OneTwoThree
            /\ Len(lastInput) >= 2
            /\ SubSeq(lastInput, 1, 2) = SingleLineBlock \o <<OldImplementation>>)
           => /\ SubSeq(fileLines, 1, 2) = SingleLineBlock \o << <<"v">> \o OneTwoThree >>
              /\ Len(lastInput) >= 3 => fileLines[3] = lastInput[3]
        /\ (/\ tplVersion = OneTwoThree
            /\ Len(lastInput) = 6
            /\ SubSeq(lastInput, 1, 3) = ThreeLineBlock
            /\ LinesBeforeNextMarker(lastInput, 3) = 3)
           => /\ Len(fileLines) = 6
              /\ SubSeq(fileLines, 1, 3) = ThreeLineBlock
              /\ SubSeq(fileLines, 4, 5) = << <<"1">>, <<"3">> >>
              /\ fileLines[6] = lastInput[6]

\* C11 witness: the first run over the three-line template followed by three old
\* lines has replaced two of them and left the third, which differs from both.
Wit_C11_ImplementationReplaced ==
    /\ runs = 1
    /\ tplVersion = OneTwoThree
    /\ lastInput = ThreeLineBlock \o <<OldImplementation, <<"x">>, OldImplementation>>
    /\ fileLines = ThreeLineBlock \o << <<"1">>, <<"3">>, OldImplementation >>
    /\ lastTrace.regions[1].skipped = 2

\* the input lines the last call discarded: the old implementation after each region
DiscardedLines ==
    UNION {(lastTrace.regions[r].end + 1)..(lastTrace.regions[r].end + lastTrace.regions[r].skipped) :
           r \in 1..Len(lastTrace.regions)}

\* C12: every input line that is not part of a discarded implementation block is in
\* the output unchanged, and these lines keep their relative order; a file without
\* opening marker is written back identical.
Thm_C12_UnrelatedUntouched ==
    runs >= 1 =>
        /\ Len(lastTrace.origin) = Len(fileLines)
        /\ \A i \in (1..Len(lastInput)) \ DiscardedLines :
              \E p \in 1..Len(fileLines) :
                  lastTrace.origin[p] = i /\ fileLines[p] = lastInput[i]
        /\ \A p, q \in 1..Len(fileLines) :
              (p < q /\ lastTrace.origin[p] # 0 /\ lastTrace.origin[q] # 0)
                  => lastTrace.origin[p] < lastTrace.origin[q]
        /\ (\A i \in 1..Len(lastInput) : ~StrIncludes(lastInput[i], OPEN_MARKER))
              => fileLines = lastInput

\* C12 witness: a run that discarded an old implementation line and copied a line
\* before the template and a line after the new implementation, the first of them
\* with leading white space.
Wit_C12_UnrelatedUntouched ==
    /\ runs = 1
    /\ Len(lastInput) = 4
    /\ DiscardedLines = {3}
    /\ lastInput[1] = <<" ">> \o Placeholder("major")
    /\ fileLines[1] = lastInput[1]
    /\ fileLines[4] = lastInput[4]
    /\ fileLines[3] # lastInput[3]
    /\ ~StrIncludes(lastInput[4], OPEN_MARKER)

\* ---- vocabulary of the properties of renderTemplate ----
\* the value the last call gave to {{name}}
ValueOf(name) ==
    CASE name = "version" -> tplVersion
      [] name = "major" -> VersionPart(tplVersion, 1)
      [] name = "minor" -> VersionPart(tplVersion, 2)
      [] name = "patch" -> VersionPart(tplVersion, 3)

\* one pass over the text, left to right: a placeholder of the four becomes its value
\* and the pass goes on after it, any other element is copied
RECURSIVE SimultaneousPass(_)
SimultaneousPass(s) ==
    IF s = <<>> THEN <<>>
    ELSE LET names == {n \in {"version", "major", "minor", "patch"} :
                          Len(s) >= 5 /\ SubSeq(s, 1, 5) = Placeholder(n)}
         IN  IF names = {} THEN <<Head(s)>> \o SimultaneousPass(Tail(s))
             ELSE ValueOf(CHOOSE n \in names : TRUE) \o SimultaneousPass(SubSeq(s, 6, Len(s)))

\* C14: renderTemplate replaces every occurrence of exactly {{version}}, {{major}},
\* {{minor}} and {{patch}}, written in that case, as one simultaneous pass: the text
\* a substitution brings in is not substituted again, and all other text, other
\* {{...}} tokens included, stays as it is.
Thm_C14_RenderSimultaneous ==
    renderedText # Undefined =>
        /\ renderedText = SimultaneousPass(templateText)
        /\ (\A n \in {"version", "major", "minor", "patch"} :
               ~StrIncludes(templateText, Placeholder(n))) => renderedText = templateText

\* C14 witness: {{{{major}}}} rendered for 1.2.3 is {{1}}: the braces left around
\* the value do not make it a placeholder again.
Wit_C14_RenderSimultaneous ==
    /\ tplVersion = OneTwoThree
    /\ templateText = <<"{", "{">> \o Placeholder("major") \o <<"}", "}">>
    /\ renderedText = <<"{", "{", "1", "}", "}">>

\* C20: when config.releaseAs names a bump kind, determineVersionBump uses it in
\* place of the kind the commits give, for every commit list: when the commits give
\* none a version is still computed, and when they give a higher kind the override
\* still decides.
Thm_C20_OverrideReplaces ==
    (Decided /\ HasOverride) =>
        /\ result.bumpType = releaseAs
        /\ SemverCompare(result.newVersion, currentVersion) = 1
        /\ (currentVersion.major >= 1 /\ currentVersion.pre = "")
              => result.newVersion = Standard(currentVersion, releaseAs)

\* C20 witness: the commits ask for a major bump of 1.0.0, the override says patch,
\* and the decision is 1.0.1.
Wit_C20_OverrideReplaces ==
    /\ Decided
    /\ releaseAs = "patch"
    /\ result.aggregated = "major"
    /\ currentVersion = V(1, 0, 0)
    /\ result.bumpType = "patch"
    /\ result.newVersion = V(1, 0, 1)

\* ---- vocabulary of the properties of a batch ----
\* line i of `lines` opens a template that no '%%' closes, on that line or after it
UnterminatedAt(lines, i) ==
    LET s == IndexOf(lines[i], OPEN_MARKER, 1)
    IN  /\ s # 0
        /\ IndexOf(lines[i], END_MARKER, s + Len(OPEN_MARKER)) = 0
        /\ \A j \in (i + 1)..Len(lines) : ~StrIncludes(lines[j], END_MARKER)

\* the positions in io of the calls of one kind, made for the file at `path`
CallsOf(op, path) == {k \in 1..Len(io) : io[k].op = op /\ io[k].of = path}

\* the position in io of the last successful read, 0 when nothing was read
LastRead ==
    LET ks == {k \in 1..Len(io) : io[k].op = "read" /\ io[k].ok}
    IN  IF ks = {} THEN 0 ELSE CHOOSE k \in ks : \A h \in ks : h <= k

\* C13: a template region without closing marker before the end of the file is
\* abandoned without error: its opening line stays as it is and the scan goes on at
\* the next line, the file is still written, and the rest of the batch is still
\* processed.
Thm_C13_UnterminatedAbandoned ==
    (mode = "version" /\ LastRead # 0) =>
        LET lines == io[LastRead].data
            written == io[LastRead + 1]
        IN  /\ lines = lastInput
            /\ written.op = "write"
            /\ written.of = io[LastRead].of
            /\ \A i \in 1..Len(lines) :
                  UnterminatedAt(lines, i) =>
                      /\ \A r \in 1..Len(lastTrace.regions) : lastTrace.regions[r].start # i
                      /\ LET p == OutputPosition(i)
                         IN  /\ p # 0
                             /\ written.data[p] = lines[i]
                             /\ i < Len(lines) =>
                                   /\ lastTrace.origin[p + 1] = i + 1
                                   /\ written.data[p + 1] = lines[i + 1]
                      /\ written.ok => fs[PathResolve(written.path)] = written.data
                      /\ (written.ok /\ io[LastRead + 2].ok) =>
                            /\ processedFiles[Len(processedFiles)] = PathResolve(written.path)
                            /\ status = "thrown" => Len(io) > LastRead + 2

\* C13 witness: a batch of two files, the first with an unterminated template: both
\* were written and listed, and the first is as it was.
Wit_C13_UnterminatedAbandoned ==
    /\ mode = "version"
    /\ status = "returned"
    /\ Len(files) = 2
    /\ files[1] # files[2]
    /\ fs0[PathResolve(files[1])] = UnterminatedFile
    /\ fs0[PathResolve(files[2])] = MarkedFile
    /\ fs[PathResolve(files[1])] = UnterminatedFile
    /\ fs[PathResolve(files[2])] # MarkedFile
    /\ processedFiles = <<PathResolve(files[1]), PathResolve(files[2])>>

\* the path p with .new put immediately before its extension, at its end when it
\* has none
WithNew(p) ==
    IF Len(p) >= 2 /\ IsExtToken(p[Len(p)]) /\ ~IsDirToken(p[Len(p) - 1])
    THEN SubSeq(p, 1, Len(p) - 1) \o <<".new", p[Len(p)]>>
    ELSE p \o <<".new">>

\* the path p without its .tpl elements
WithoutTpl(p) ==
    LET NotTpl(t) == t # ".tpl"
    IN  SelectSeq(p, NotTpl)

\* C15: processTemplateFiles writes, for an input path holding .tpl, the path with
\* every .tpl removed (config.tpl.json gives config.json), and for any other input
\* path the file named by the path with .new put immediately before the extension
\* (version.js gives version.new.js); what it writes there is renderTemplate of the
\* whole content it read.
Thm_C15_OutputPath ==
    mode = "template" =>
        \A k \in 1..Len(io) :
            io[k].op = "write" =>
                /\ io[k - 1].op = "read" /\ io[k - 1].path = io[k].of
                /\ IF \E n \in DOMAIN io[k].of : io[k].of[n] = ".tpl"
                   THEN io[k].path = WithoutTpl(io[k].of)
                   ELSE PathResolve(io[k].path) = PathResolve(WithNew(io[k].of))
                /\ io[k].data = SplitLines(SimultaneousPass(JoinLines(io[k - 1].data)))

\* C15 witness: ./config.tpl.json and ./version.js were rendered into ./config.json
\* and version.new.js, the second from a file holding {{version}}.
Wit_C15_OutputPath ==
    /\ mode = "template"
    /\ status = "returned"
    /\ files = << <<"./", "config", ".tpl", ".json">>, <<"./", "version", ".js">> >>
    /\ fs0[<<"version", ".js">>] = MarkedFile
    /\ Len(io) = 8
    /\ io[3].path = <<"./", "config", ".json">>
    /\ io[7].path = <<"version", ".new", ".js">>
    /\ fs[<<"version", ".new", ".js">>] =
           << <<"/", "/", " ">> \o OPEN_MARKER \o <<" ", "v">> \o OneTwoThree \o END_MARKER,
              OldImplementation >>
    /\ processedFiles = << <<"config", ".json">>, <<"version", ".new", ".js">> >>

\* the output path the template at path p is rendered to
ExpectedOutput(p) ==
    IF \E n \in DOMAIN p : p[n] = ".tpl" THEN WithoutTpl(p) ELSE WithNew(p)

\* the file at path p is as it was before the call
Untouched(p) == fs[PathResolve(p)] = fs0[PathResolve(p)]

\* C16 as stated: after processTemplateFiles every path of the input list has the
\* content it had before the call.
Cex_C16_InputsUnmodified ==
    mode = "template" => \A k \in DOMAIN files : Untouched(files[k])

\* C16, amended: processTemplateFiles never writes the template it is reading, and
\* after the call an input path has the content it had before unless it is the
\* output path of another input of the batch that was there to be rendered.
Thm_C16_InputsUnmodified ==
    mode = "template" =>
        /\ \A k \in 1..Len(io) :
              io[k].op = "write" => PathResolve(io[k].path) # PathResolve(io[k].of)
        /\ \A k \in DOMAIN files :
              Untouched(files[k])
              \/ \E j \in DOMAIN files :
                    /\ files[j] # files[k]
                    /\ PathResolve(ExpectedOutput(files[j])) = PathResolve(files[k])
                    /\ fs0[PathResolve(files[j])] # Missing

\* C16 witness: ./config.tpl.json and config.json listed together: the first is as
\* it was, the second was overwritten with the rendering of the first and then
\* rendered itself.
Wit_C16_InputsUnmodified ==
    /\ mode = "template"
    /\ status = "returned"
    /\ files = << <<"./", "config", ".tpl", ".json">>, <<"config", ".json">> >>
    /\ fs0[<<"config", ".tpl", ".json">>] = MarkedFile
    /\ fs0[<<"config", ".json">>] = UnterminatedFile
    /\ Untouched(files[1])
    /\ ~Untouched(files[2])
    /\ fs[<<"config", ".new", ".json">>] = fs[<<"config", ".json">>]

\* the absolute paths of the successful writes, in the order they were made
RECURSIVE WrittenPaths(_)
WrittenPaths(calls) ==
    IF calls = <<>> THEN <<>>
    ELSE IF Head(calls).op = "write" /\ Head(calls).ok
    THEN <<PathResolve(Head(calls).path)>> \o WrittenPaths(Tail(calls))
    ELSE WrittenPaths(Tail(calls))

\* C17 as stated: in both functions an input file that is missing or cannot be read
\* is skipped and the batch goes on: no error reaches the caller because of it, so
\* every file of the list is reached, and the list returned holds the written files
\* in input order and not the skipped one.
Cex_C17_BadInputSkipped ==
    /\ status = "thrown" => caught[1].op \in {"write", "verify"}
    /\ \A k \in 1..Len(io) :
          (io[k].op = "read" /\ ~io[k].ok) => (status = "running" \/ idx > Len(files))
    /\ status = "returned" =>
          /\ processedFiles = WrittenPaths(io)
          /\ mode = "version" =>
                \A k \in 1..Len(io) :
                    (io[k].op = "access" /\ ~io[k].ok)
                        => \A n \in DOMAIN processedFiles :
                               processedFiles[n] # PathResolve(io[k].path)

\* the position in io of the last successful write to the file at absolute path q,
\* 0 when there is none
LastWrite(q) ==
    LET ks == {k \in 1..Len(io) : io[k].op = "write" /\ io[k].ok /\ PathResolve(io[k].path) = q}
    IN  IF ks = {} THEN 0 ELSE CHOOSE k \in ks : \A h \in ks : h <= k

\* C18: a write failure in either function is raised again and ends the batch: the
\* caller receives the error, no file after the failing one is read or written, and
\* the files written before the failure keep their new content.
Thm_C18_WriteFailureAborts ==
    \A k \in 1..Len(io) :
        (io[k].op = "write" /\ ~io[k].ok) =>
            /\ k = Len(io)
            /\ status = "thrown"
            /\ caught = <<[op |-> "write", path |-> io[k].path]>>
            /\ idx <= Len(files) /\ files[idx] = io[k].of
            /\ updatedFiles = <<>>
            /\ \A q \in AllPaths :
                  fs[q] = IF LastWrite(q) = 0 THEN fs0[q] ELSE io[LastWrite(q)].data

\* C18 witness: the first file of two was rewritten, the write of the second was
\* rejected: the call threw, the first file has its new content, the second its old.
Wit_C18_WriteFailureAborts ==
    /\ mode = "version"
    /\ status = "thrown"
    /\ Len(files) = 2
    /\ idx = 2
    /\ files[1] # files[2]
    /\ caught = <<[op |-> "write", path |-> files[2]]>>
    /\ fs0[PathResolve(files[1])] = MarkedFile
    /\ fs[PathResolve(files[1])] = SingleLineBlock \o << <<"v">> \o OneTwoThree >>
    /\ fs0[PathResolve(files[2])] = MarkedFile
    /\ fs[PathResolve(files[2])] = MarkedFile

\* C19 as stated: when a batch fails, the caller is told which files succeeded and
\* which failed: what run holds after the throw names the failed file and lists the
\* files that were written.
Cex_C19_FailureReport ==
    status = "thrown" =>
        /\ caught # NoError
        /\ updatedFiles = WrittenPaths(io)

\* C19, amended: when a batch fails, run receives the error of the call that failed
\* and nothing else, its updatedFiles holding none of the files written; which files
\* succeeded and which failed is only on the console, one success line per file
\* written and an error line for the file the batch stopped at.
Thm_C19_FailureReport ==
    status = "thrown" =>
        /\ caught # NoError
        /\ caught[1].path \in {files[idx], TargetOf(files[idx])}
        /\ updatedFiles = <<>>
        /\ log[Len(log)] = [file |-> files[idx], what |-> "error"]
        /\ \A k \in 1..Len(io) :
              (io[k].op = "write" /\ io[k].ok) =>
                  \E n \in 1..Len(log) : log[n] = [file |-> io[k].of, what |-> "success"]
        /\ \A n \in 1..Len(log) :
              log[n].what = "success" =>
                  \E k \in 1..Len(io) : io[k].op = "write" /\ io[k].ok /\ io[k].of = log[n].file

\* C19 witness: one file was written and listed, the next could not be written: run
\* holds the error and an empty updatedFiles, the console a success line and an
\* error line.
Wit_C19_FailureReport ==
    /\ status = "thrown"
    /\ Len(files) = 2
    /\ files[1] # files[2]
    /\ Len(processedFiles) = 1
    /\ updatedFiles = <<>>
    /\ caught[1].op = "write"
    /\ log = <<[file |-> files[1], what |-> "success"],
               [file |-> files[2], what |-> "save_error"],
               [file |-> files[2], what |-> "error"]>>

\* ---- vocabulary of the properties of the comment scan ----
\* the body holds the command /bump <kind>, in any case, from element i on
CommandAt(body, i, kind) ==
    /\ LowerCase(body[i]) = "/bump"
    /\ \E j \in (i + 2)..Len(body) :
          /\ \A k \in (i + 1)..(j - 1) : IsSpace(body[k])
          /\ KindPrefix(body[j]) = kind
HasCommand(c) ==
    \E i \in 1..Len(BodyOf(c)) : \E kind \in {"major", "minor"} : CommandAt(BodyOf(c), i, kind)
Answered == bumpCommandResult # NotCalled /\ ~bumpCommandResult[1].error

\* C29: findBumpCommandsInPR reports a command exactly when some listed comment
\* contains /bump major or /bump minor in any case; the comment it reports is
\* the first such comment of the list, the kind is that of the leftmost command
\* of that comment, and no command of a later comment changes the answer.
Thm_C29_FirstCommentWins ==
    Answered =>
        LET r == bumpCommandResult[1]
        IN  /\ r.hasBumpCommand <=> \E i \in 1..Len(prComments) : HasCommand(prComments[i])
            /\ r.hasBumpCommand =>
                 /\ HasCommand(prComments[r.commentId])
                 /\ \A i \in 1..(r.commentId - 1) : ~HasCommand(prComments[i])
                 /\ \E p \in 1..Len(BodyOf(prComments[r.commentId])) :
                       /\ CommandAt(BodyOf(prComments[r.commentId]), p, r.bumpType)
                       /\ \A q \in 1..(p - 1) : \A kind \in {"major", "minor"} :
                             ~CommandAt(BodyOf(prComments[r.commentId]), q, kind)
                 /\ r = findBumpCommandsInPR(1, SubSeq(prComments, 1, r.commentId))

\* the second comment asks for major, the third for minor: major is reported
Wit_C29_FirstCommentWins ==
    /\ Answered
    /\ Len(prComments) = 3
    /\ ~HasCommand(prComments[1])
    /\ prComments[2] = <<"/bump", " ", "major">>
    /\ prComments[3] = <<"/BUMP", " ", "\n", "Minor">>
    /\ bumpCommandResult[1].bumpType = "major"
    /\ bumpCommandResult[1].commentId = 2

\* ---- vocabulary of the properties of the changelog table ----
Merged == mergedEntries # NotCalled
MergedList == mergedEntries[1]
\* the commit ids of the entries of a list
CommitIds(entries) == {entries[i].commit : i \in 1..Len(entries)} \ {""}
\* the last entry of the list that carries the id
LastWith(entries, id) ==
    entries[CHOOSE i \in 1..Len(entries) :
               /\ entries[i].commit = id
               /\ \A j \in (i + 1)..Len(entries) : entries[j].commit # id]

TypeOKWorkflow == Cardinality(pulls) <= MaxPulls /\ Len(pending) <= MaxPending

\* the run that was started by the merge of a release pull request
ReleaseMerge == lastRun.runType = "release" /\ lastRun.pull.head = "staging"
\* the run touched a release pull request
TouchedReleasePull == lastRun.created # NoPull \/ lastRun.updated.head = "staging"
\* the version the release path works out for the run
ResolvedVersion ==
    IF lastRun.found THEN applyBumpCommand(lastRun.branchVersion, lastRun.bumpType)
    ELSE lastRun.branchVersion

\* C23: a run whose commit analysis ends with no bump kind stops there: it
\* renders no file, creates or updates no pull request, moves no tag, and the
\* new version it reports is the current version.
Thm_C23_NoBumpIdle ==
    [][(lastRun' # lastRun /\ lastRun'.analyzed /\ lastRun'.bumpType = NULL) =>
          /\ lastRun'.runType = "none"
          /\ lastRun'.rendered = NoVersion
          /\ lastRun'.created = NoPull /\ lastRun'.updated = NoPull
          /\ lastRun'.tagged = NoVersion
          /\ lastRun'.newVersion = lastRun'.currentVersion
          /\ tags' = tags
          /\ pulls' \subseteq pulls]_vars

\* a push of a docs commit alone ends idle at the current version 1.0.0
Wit_C23_NoBumpIdle ==
    /\ lastRun.event = "push"
    /\ lastRun.runType = "none"
    /\ pending = <<Commit(<<"docs">>, Undefined, <<>>)>>
    /\ lastRun.newVersion = <<1, 0, 0>>
    /\ pulls = {}

Cex_C22_RenderedAgain ==
    (ReleaseMerge /\ lastRun.found /\ lastRun.tagged # lastRun.branchVersion) =>
        (lastRun.rendered = lastRun.tagged /\ lastRun.taggedFiles = lastRun.tagged)

\* C24 as stated: whatever runs new commits on the merge branch start, at most
\* one release pull request is open.
Cex_C24_OneReleasePull ==
    Cardinality({p \in pulls : p.head = "staging"}) <= 1

\* C27: no step moves or removes a primary version tag: once v<version> exists
\* it points at the commit it was created on.
Thm_C27_TagNeverMoves ==
    [][\A t \in tags : IsPrimaryTag(t.name) => t \in tags']_vars

\* tagRelease was called for a version whose tag existed, with the release
\* branch ahead of the tagged commit
Wit_C27_TagNeverMoves ==
    /\ lastRun.runType = "release"
    /\ lastRun.tagExisted
    /\ \E t \in tags : t.name = PrimaryTag(lastRun.tagged) /\ t.sha < releaseHead

\* C28 as stated: only a run started by the merge of a pull request whose head
\* is a staging branch reaches tagRelease.
Cex_C28_OnlyReleaseMergeTags ==
    lastRun.tagged # NoVersion => lastRun.pull.head = "staging"

\* C25 as stated: once processTemplateFiles has returned, every entry
\* {path, output} whose template exists has been rendered from the file at path
\* and written to the output path, which is in the list of generated files.
Cex_C25_PathAndOutput ==
    (status = "returned" /\ mode = "template") =>
        \A i \in 1..Len(files) :
            fs0[PathResolve(files[i].path)] # Missing =>
                /\ fs[PathResolve(files[i].output)] = Rewritten(fs0[PathResolve(files[i].path)])
                /\ \E k \in 1..Len(updatedFiles) : updatedFiles[k] = PathResolve(files[i].output)

\* C30 as stated: when other commits land on the branch between the call's read
\* of the head and its update of the ref, then once the call has succeeded the
\* tree at the head holds the call's files and the other commits' changes.
Cex_C30_NoLostUpdate ==
    (commitPc = "done" /\ landed # {}) =>
        /\ \A p \in commitFiles : branchTree[p] = "ours"
        /\ \A p \in landed \ commitFiles : branchTree[p] = "theirs"

====
